---- MODULE Spec2Model ----
(***************************************************************************)
(* Email thread reconstruction and cross-document linking of the aidevops  *)
(* scripts:                                                                *)
(*   email-thread-reconstruction.py  build_thread_graph                    *)
(*   email-to-markdown.py            reconstruct_thread                    *)
(*   cross-document-linking.py       parse_frontmatter, update_document    *)
(*                                                                         *)
(* Strings are modelled as sequences of one-character strings, so that     *)
(* str.strip(), string comparison and concatenation are computed and not   *)
(* assumed.  A missing dictionary key and the empty string coincide in the *)
(* code (dict.get(key, '')) and are both the empty sequence here.          *)
(***************************************************************************)
EXTENDS Integers, Sequences, FiniteSets, TLC

VARIABLES
    pc,        \* which program runs and where it stands
    emails,    \* email-thread-reconstruction.py: the list handed to build_thread_graph
    docs,      \* the thread fields build_thread_graph sets on each email dict
    by_message_id, \* build_thread_graph's lookup map
    children,  \* build_thread_graph's defaultdict: parent id -> replies
    roots,     \* build_thread_graph's list of root emails
    threads,   \* the dict build_thread_graph returns: thread_id -> thread_list
    thread_lists, \* the thread_list of each traversal from a root, in root order
    thread_map, \* email-to-markdown.py: message_id -> in_reply_to of every scanned email
    calls,     \* the message_ids reconstruct_thread is still to be called with
    call,      \* the locals of the running reconstruct_thread call
    results,   \* message_id -> the tuple reconstruct_thread returned for it
    files,     \* the directory: file name -> content of each *.md file
    folders,   \* cross-document-linking.py: file name -> the *.md files of the folder named like it, in glob order
    dry_run,   \* the --dry-run flag
    run,       \* how many runs of main() have begun
    documents, \* the Document objects main() parsed and has still to update
    updated,    \* the documents update_document returned True for, in this run
    round_trip, \* parse_frontmatter / serialize_frontmatter: the text and what each step made of it
    attachment_dirs, \* add-related-docs.py: file name -> the files in its <stem>_attachments/ directory
    scan_order, \* the order in which rglob yields the *.md files
    all_docs, \* scan_directory: the documents with frontmatter, in scan order
    pending, \* the keys of all_docs main() has still to process
    unwritable, \* the files whose write raises an error (permission denied, disk full)
    new_fields, \* email-thread-reconstruction.py: file name -> the thread fields build_thread_graph gave the email
    update_order, \* the files in the order of the thread lists
    update_todo, \* the emails the loop of reconstruct_threads has still to update
    registry, \* dedup_registry: content hash -> path of the first occurrence
    disk, \* the attachment paths: absent, a file with its data, or a symlink
    last_save, \* the last call of _save_attachment: its arguments and what came of it
    saves, \* number of _save_attachment calls so far
    stdin, \* git_safety_guard.py: what the hook reads from standard input
    stdout, \* what the hook has printed
    exit_code, \* the exit status of the hook
    mail, \* email-summary.py: the body handed to generate_summary, or the content of the markdown file
    args, \* the method and the flags of the call
    ollama, \* what each call of the ollama binary comes to
    report, \* what the call returned, printed and left in the file
    running, \* voice-bridge.py: VoiceBridge.running
    is_speaking, \* VoiceBridge.is_speaking: TTS playback active (mic muted)
    audio_buffer, \* the deque of utterances waiting for STT
    speech_frames, \* the audio blocks of the utterance being recorded
    silence_counter, \* the silent blocks since the last block with speech
    speech_detected, \* an utterance is being recorded
    callback, \* the audio-callback thread: where it stands and the block it was called with
    process, \* the processing thread: where it stands and the utterance it took
    heard \* the audio blocks delivered so far, and those delivered after the first utterance was queued

graph_vars == <<emails, docs, by_message_id, children, roots, threads, thread_lists>>

thread_vars == <<thread_map, calls, call, results>>

link_vars == <<files, folders, dry_run, run, documents, updated>>

trip_vars == <<round_trip>>

ard_vars == <<attachment_dirs, scan_order, all_docs, pending>>

fault_vars == <<unwritable>>

upd_vars == <<new_fields, update_order, update_todo>>

save_vars == <<registry, disk, last_save, saves>>

hook_vars == <<stdin, stdout, exit_code>>

summary_vars == <<mail, args, ollama, report>>

voice_vars == <<running, is_speaking, audio_buffer, speech_frames, silence_counter, speech_detected, callback, process, heard>>

vars == <<pc, graph_vars, thread_vars, link_vars, trip_vars, ard_vars, fault_vars, upd_vars, save_vars, hook_vars, summary_vars, voice_vars>>

\* ------------------------------------------------------------------ bounds

\* Largest number of emails in one scan.
MaxEmails == 3

\* Largest number of messages in one thread_map.
MaxMessages == 3

\* Number of emails in a scan whose thread order is examined.
TreeSize == 4

\* Number of runs of cross-document-linking's main() on one directory.
Runs == 2

\* Longest initial document body, in characters.
MaxBody == 2

\* Largest number of lines in a frontmatter text.
MaxLines == 3

\* Largest number of _save_attachment calls on one registry.
MaxSaves == 3

\* Depth of nested traverse() calls after which the interpreter raises
\* RecursionError (sys.getrecursionlimit(), far above any real thread; here
\* just above the longest acyclic chain MaxEmails allows).
RecursionLimit == MaxEmails + 2

\* ------------------------------------------------------------- strings

\* Message ids as character sequences: absent/empty, plain, and one with
\* surrounding whitespace (a quoted frontmatter value keeps inner blanks).
MessageIds == {<<>>, <<"a">>, <<"b">>, <<"a", " ">>}

\* Pairwise distinct message ids.  The code compares ids only for equality,
\* so the first n names stand for any n distinct ids in any order.
KeyNames == <<"a", "b", "c", "d", "e">>

Keys(n) == {<<KeyNames[i]>> : i \in 1..n}

\* date_sent values: absent/empty, or a date string.
Dates == {<<>>, <<"1">>}

IsSpace(c) == c = " " \/ c = "\n"

RECURSIVE LStrip(_)
LStrip(s) == IF s # <<>> /\ IsSpace(Head(s)) THEN LStrip(Tail(s)) ELSE s

RECURSIVE RStrip(_)
RStrip(s) ==
    IF s # <<>> /\ IsSpace(s[Len(s)]) THEN RStrip(SubSeq(s, 1, Len(s) - 1)) ELSE s

\* str.strip()
Strip(s) == RStrip(LStrip(s))

\* ord() of the first character of a token.
CharRank(c) ==
    CASE c = "\n" -> 10 [] c = " " -> 32 [] c = "-raw-headers" -> 45
      [] c = ".md" -> 46 [] c = "/" -> 47 [] c = "1" -> 49 [] c = "2" -> 50
      [] c = "a" -> 97 [] c = "b" -> 98 [] c = "c" -> 99 [] c = "h" -> 104
      [] c = "i" -> 105 [] c = "x" -> 120 [] c = "y" -> 121 [] OTHER -> 127

\* Python's str < str: lexicographic by code point, a proper prefix first.
RECURSIVE StrLess(_, _)
StrLess(s, t) ==
    IF t = <<>> THEN FALSE
    ELSE IF s = <<>> THEN TRUE
    ELSE IF Head(s) # Head(t) THEN CharRank(Head(s)) < CharRank(Head(t))
    ELSE StrLess(Tail(s), Tail(t))

\* ------------------------------------------- build_thread_graph (lines 129-197)

\* The file path of the i-th scanned email; paths are unique within a scan.
File(i) == <<"/", ToString(i)>>

\* Indexes of the emails in list order.
EmailIdx(es) == 1..Len(es)

\* by_message_id (lines 139-143): stripped non-empty message_id -> the last
\* email carrying it.
ByMessageId(es) ==
    LET ids == [i \in EmailIdx(es) |-> Strip(es[i].message_id)]
        keys == {ids[i] : i \in EmailIdx(es)} \ {<<>>}
    IN  [k \in keys |->
            CHOOSE i \in EmailIdx(es) :
                ids[i] = k /\ \A j \in EmailIdx(es) : ids[j] = k => j <= i]

\* The test of lines 153-163: the email has a message_id and its in_reply_to
\* is the message_id of a scanned email.
IsReply(es, bm, i) ==
    /\ Strip(es[i].message_id) # <<>>
    /\ Strip(es[i].in_reply_to) # <<>>
    /\ Strip(es[i].in_reply_to) \in DOMAIN bm

\* The emails' indexes as a list, in list order.
IdxSeq(es) == [i \in 1..Len(es) |-> i]

\* roots, in the order the loop of line 149 appends them.
Roots(es, bm) ==
    LET Keep(i) == ~IsReply(es, bm, i) IN SelectSeq(IdxSeq(es), Keep)

\* children: stripped in_reply_to -> the replies appended under it, in list
\* order; the defaultdict holds a key only once something was appended.
Children(es, bm) ==
    LET replies == {i \in EmailIdx(es) : IsReply(es, bm, i)}
        keys == {Strip(es[i].in_reply_to) : i \in replies}
    IN  [k \in keys |->
            LET Keep(i) == i \in replies /\ Strip(es[i].in_reply_to) = k
            IN  SelectSeq(IdxSeq(es), Keep)]

RECURSIVE InsertByDate(_, _, _)
\* x placed after every element whose date_sent is not greater (stable).
InsertByDate(es, sorted, x) ==
    IF sorted = <<>> THEN <<x>>
    ELSE IF StrLess(es[x].date_sent, es[Head(sorted)].date_sent)
         THEN <<x>> \o sorted
         ELSE <<Head(sorted)>> \o InsertByDate(es, Tail(sorted), x)

RECURSIVE SortedByDate(_, _, _)
\* sorted(children[msg_id], key=date_sent): Python's sort is stable.
SortedByDate(es, todo, acc) ==
    IF todo = <<>> THEN acc
    ELSE SortedByDate(es, Tail(todo), InsertByDate(es, acc, Head(todo)))

\* SortedChildren without the sort: the replies in scan order.
UnsortedChildren(es, ch, i) ==
    IF es[i].message_id \in DOMAIN ch THEN ch[es[i].message_id] ELSE <<>>

\* sorted_children of traverse(): looked up under the message_id as it is
\* stored (line 173 does not strip it).
SortedChildren(es, ch, i) ==
    IF es[i].message_id \in DOMAIN ch
    THEN SortedByDate(es, ch[es[i].message_id], <<>>)
    ELSE <<>>

\* The visit that would pass the interpreter's recursion limit.
Overflow == [doc |-> 0, pos |-> -1]

Raised(visits) == visits # <<>> /\ visits[Len(visits)] = Overflow

RECURSIVE Traverse(_, _, _, _, _, _)
RECURSIVE TraverseAll(_, _, _, _, _, _)
\* traverse(email, thread_list, position): thread_list (here with the position
\* assigned at each visit) after the call.  A call nested deeper than the
\* recursion limit raises RecursionError: the list then ends in Overflow and
\* nothing more is visited.
Traverse(es, ch, i, position, depth, thread_list) ==
    IF Raised(thread_list) THEN thread_list
    ELSE IF depth > RecursionLimit THEN Append(thread_list, Overflow)
    ELSE TraverseAll(es, ch, SortedChildren(es, ch, i), position + 1, depth + 1,
                     Append(thread_list, [doc |-> i, pos |-> position]))

TraverseAll(es, ch, kids, position, depth, thread_list) ==
    IF kids = <<>> THEN thread_list
    ELSE TraverseAll(es, ch, Tail(kids), position, depth,
                     Traverse(es, ch, Head(kids), position, depth, thread_list))

\* The visits of a thread_list without the Overflow mark.
Visits(tl) == IF Raised(tl) THEN SubSeq(tl, 1, Len(tl) - 1) ELSE tl

\* The fields of an email dict that build_thread_graph has not set yet: a
\* thread_id is never empty and a position or length never negative.
Unset == [thread_id |-> <<>>, thread_position |-> -1, thread_length |-> -1]

RECURSIVE SetPositions(_, _)
\* email['thread_position'] = position, visit by visit.
SetPositions(d, visits) ==
    IF visits = <<>> THEN d
    ELSE LET v == Head(visits)
         IN  SetPositions([d EXCEPT ![v.doc].thread_position = v.pos], Tail(visits))

\* RootThreadId without the fall-back to the file path.
RootThreadIdNoFile(es, r) == es[r].message_id

\* thread_id of a root (line 188): its message_id, or its file path when that
\* is empty.
RootThreadId(es, r) ==
    IF es[r].message_id # <<>> THEN es[r].message_id ELSE File(r)

\* SetThread taking the length from the email's own position.
SetThreadLengthFromPosition(d, visits, tid) ==
    [i \in DOMAIN d |->
        IF \E k \in DOMAIN visits : visits[k].doc = i
        THEN [d[i] EXCEPT !.thread_id = tid, !.thread_length = d[i].thread_position + 1]
        ELSE d[i]]

\* Lines 190-193 for one finished thread_list.
SetThread(d, visits, tid) ==
    [i \in DOMAIN d |->
        IF \E k \in DOMAIN visits : visits[k].doc = i
        THEN [d[i] EXCEPT !.thread_id = tid, !.thread_length = Len(visits)]
        ELSE d[i]]

\* threads[thread_id] = thread_list (line 195)
PutThread(th, tid, visits) ==
    [t \in DOMAIN th \cup {tid} |->
        IF t = tid THEN [k \in DOMAIN visits |-> visits[k].doc] ELSE th[t]]

RECURSIVE BuildFrom(_, _, _, _)
\* The loop of lines 183-195 over the remaining roots, from state st.
BuildFrom(es, ch, rts, st) ==
    IF rts = <<>> THEN st
    ELSE LET r   == Head(rts)
             tl  == Traverse(es, ch, r, 0, 1, <<>>)
             d1  == SetPositions(st.docs, Visits(tl))
         IN  IF Raised(tl)
             THEN [st EXCEPT !.docs = d1, !.raised = TRUE,
                             !.lists = Append(st.lists, Visits(tl))]
             ELSE BuildFrom(es, ch, Tail(rts),
                    [st EXCEPT
                       !.docs = SetThread(d1, tl, RootThreadId(es, r)),
                       !.threads = PutThread(st.threads, RootThreadId(es, r), tl),
                       !.lists = Append(st.lists, tl)])

NoThreads == [t \in {} |-> <<>>]

\* The scans of SpecGraph: up to MaxEmails emails, any message_id and
\* in_reply_to, no date_sent field.
EmailRecords == [message_id : MessageIds, in_reply_to : MessageIds, date_sent : {<<>>}]

EmailLists == UNION {[1..n -> EmailRecords] : n \in 1..MaxEmails}

\* No thread_map is being processed.
ThreadIdle ==
    /\ thread_map = NoThreads
    /\ calls = <<>>
    /\ call = NoThreads
    /\ results = NoThreads

LinkIdle ==
    /\ files = NoThreads
    /\ folders = NoThreads
    /\ dry_run = FALSE
    /\ run = 0
    /\ documents = <<>>
    /\ updated = {}

TripIdle == round_trip = <<>>

FaultIdle == unwritable = {}

\* No hook input is being checked.
HookIdle ==
    /\ stdin = <<>>
    /\ stdout = <<>>
    /\ exit_code = 0

\* No email-summary.py call is running.
SummaryIdle ==
    /\ mail = <<>>
    /\ args = <<>>
    /\ ollama = <<>>
    /\ report = <<>>

\* No voice bridge is running.
VoiceIdle ==
    /\ running = FALSE
    /\ is_speaking = FALSE
    /\ audio_buffer = <<>>
    /\ speech_frames = <<>>
    /\ silence_counter = 0
    /\ speech_detected = FALSE
    /\ callback = <<>>
    /\ process = <<>>
    /\ heard = 0

SaveIdle ==
    /\ registry = <<>>
    /\ disk = <<>>
    /\ last_save = <<>>
    /\ saves = 0

UpdIdle ==
    /\ new_fields = <<>>
    /\ update_order = <<>>
    /\ update_todo = <<>>

ArdIdle ==
    /\ attachment_dirs = <<>>
    /\ scan_order = <<>>
    /\ all_docs = <<>>
    /\ pending = <<>>

InitGraph ==
    /\ pc = "scanned"
    /\ VoiceIdle
    /\ SummaryIdle
    /\ HookIdle
    /\ SaveIdle
    /\ UpdIdle
    /\ FaultIdle
    /\ ArdIdle
    /\ TripIdle
    /\ ThreadIdle
    /\ LinkIdle
    /\ emails \in EmailLists
    /\ by_message_id = NoThreads
    /\ children = NoThreads
    /\ roots = <<>>
    /\ docs = [i \in EmailIdx(emails) |-> Unset]
    /\ threads = NoThreads
    /\ thread_lists = <<>>

\* build_thread_graph, lines 139-163: the lookup maps and the roots.
BuildMaps ==
    /\ pc = "scanned"
    /\ by_message_id' = ByMessageId(emails)
    /\ children' = Children(emails, by_message_id')
    /\ roots' = Roots(emails, by_message_id')
    /\ pc' = "indexed"
    /\ UNCHANGED <<emails, docs, threads, thread_lists, thread_vars, link_vars, trip_vars, ard_vars, fault_vars, upd_vars, save_vars, hook_vars, summary_vars, voice_vars>>

\* build_thread_graph, lines 166-197: every root is traversed; the threads
\* are returned, or RecursionError escapes from traverse().
TraverseRoots ==
    /\ pc = "indexed"
    /\ LET r == BuildFrom(emails, children, roots,
                          [docs |-> docs, threads |-> NoThreads,
                           lists |-> <<>>, raised |-> FALSE])
       IN  /\ docs' = r.docs
           /\ threads' = r.threads
           /\ thread_lists' = r.lists
           /\ pc' = IF r.raised THEN "RecursionError" ELSE "built"
    /\ UNCHANGED <<emails, by_message_id, children, roots, thread_vars, link_vars, trip_vars, ard_vars, fault_vars, upd_vars, save_vars, hook_vars, summary_vars, voice_vars>>

NextGraph == BuildMaps \/ TraverseRoots

SpecGraph == InitGraph /\ [][NextGraph]_vars

\* The scans of SpecOrder: TreeSize emails with pairwise distinct message_ids,
\* each replying to none or to any other of them, with or without date_sent.
OrderedScans ==
    LET Replies == {irt \in [1..TreeSize -> Keys(TreeSize) \cup {<<>>}] :
                       \A i \in 1..TreeSize : irt[i] # <<KeyNames[i]>>}
    IN  {[i \in 1..TreeSize |-> [message_id |-> <<KeyNames[i]>>,
                                 in_reply_to |-> irt[i],
                                 date_sent |-> ds[i]]] :
            irt \in Replies, ds \in [1..TreeSize -> Dates]}

InitOrder ==
    /\ pc = "scanned"
    /\ VoiceIdle
    /\ SummaryIdle
    /\ HookIdle
    /\ SaveIdle
    /\ UpdIdle
    /\ FaultIdle
    /\ ArdIdle
    /\ TripIdle
    /\ ThreadIdle
    /\ LinkIdle
    /\ emails \in OrderedScans
    /\ by_message_id = NoThreads
    /\ children = NoThreads
    /\ roots = <<>>
    /\ docs = [i \in EmailIdx(emails) |-> Unset]
    /\ threads = NoThreads
    /\ thread_lists = <<>>

SpecOrder == InitOrder /\ [][NextGraph]_vars

\* ---------------------------- reconstruct_thread (email-to-markdown.py 315-369)

\* thread_map.items() in dict order: the order build_thread_map inserted the
\* messages in.
KeyOrder(tm) == [k \in 1..Cardinality(DOMAIN tm) |-> <<KeyNames[k]>>]

\* A Message-ID that no scanned email carries.
UnknownId == <<"z">>

\* thread_map values: In-Reply-To absent, a scanned id, or an unscanned one.
ThreadMaps ==
    UNION {[Keys(n) -> Keys(n) \cup {<<>>, UnknownId}] : n \in 1..MaxMessages}

\* The locals of no call.
NoCall == NoThreads

\* Lines 323-329: the early return, or the first state of the backward walk.
Known(tm, message_id) == message_id # <<>> /\ message_id \in DOMAIN tm

EarlyReturn == [thread_id |-> <<>>, thread_position |-> 0, thread_length |-> 0]

StartWalk(message_id) ==
    [message_id |-> message_id, current_id |-> message_id,
     chain |-> <<message_id>>, visited |-> {message_id},
     stack |-> <<>>, visited_desc |-> {}, counted |-> <<>>]

\* WalkBreaks without the visited test of lines 340-342.
WalkBreaksUnguarded(tm, c) ==
    LET in_reply_to == tm[c.current_id]
    IN  in_reply_to = <<>> \/ in_reply_to \notin DOMAIN tm

\* Lines 332-342: the loop breaks here.
WalkBreaks(tm, c) ==
    LET in_reply_to == tm[c.current_id]
    IN  \/ in_reply_to = <<>>
        \/ in_reply_to \notin DOMAIN tm
        \/ in_reply_to \in c.visited

\* Lines 344-346: one step back towards the root.
WalkBack(tm, c) ==
    LET in_reply_to == tm[c.current_id]
    IN  [c EXCEPT !.chain = <<in_reply_to>> \o c.chain,
                  !.visited = c.visited \cup {in_reply_to},
                  !.current_id = in_reply_to]

\* ThreadIdOf taking the end of the chain the walk started from.
ThreadIdOfLast(chain) == chain[Len(chain)]

\* Line 349: the root is the first of the chain.
ThreadIdOf(chain) == chain[1]

\* list.index(x): the 0-based index of the first occurrence.
Index(list, x) ==
    (CHOOSE k \in DOMAIN list :
        list[k] = x /\ \A l \in DOMAIN list : list[l] = x => k <= l) - 1

\* ThreadPositionOf without the + 1 that makes it 1-based.
ThreadPositionZeroBased(chain, message_id) == Index(chain, message_id)

\* Line 352: chain.index(message_id) + 1
ThreadPositionOf(chain, message_id) == Index(chain, message_id) + 1

\* count_descendants(msg_id, visited_desc), lines 356-360: nothing to count
\* for a visited message, else a new frame with count 1 whose for loop is
\* still to run over every item of thread_map.
EnterCount(tm, c, msg_id) ==
    IF msg_id \in c.visited_desc THEN c
    ELSE [c EXCEPT !.visited_desc = c.visited_desc \cup {msg_id},
                   !.counted = Append(c.counted, msg_id),
                   !.stack = Append(c.stack,
                       [msg_id |-> msg_id, update_todo |-> KeyOrder(tm), count |-> 1])]

\* The frame on top of the stack of count_descendants calls.
Top(c) == c.stack[Len(c.stack)]

\* Lines 362-364: the for loop of the top frame looks at its next item and
\* descends into it when it replies to the frame's message.
CountItem(tm, c) ==
    LET top == Top(c)
        mid == Head(top.update_todo)
        popped == [c EXCEPT !.stack[Len(c.stack)].update_todo = Tail(top.update_todo)]
    IN  IF tm[mid] = top.msg_id /\ mid \notin c.visited_desc
        THEN EnterCount(tm, popped, mid)
        ELSE popped

\* Line 365 inside a nested call: the count goes to the caller's count.
CountReturn(c) ==
    LET n == Len(c.stack)
    IN  [c EXCEPT !.stack = [k \in 1..(n - 1) |->
                    IF k = n - 1
                    THEN [c.stack[k] EXCEPT !.count = c.stack[k].count + Top(c).count]
                    ELSE c.stack[k]]]

\* Line 369: the tuple returned.
Returned(c, thread_length) ==
    [thread_id |-> ThreadIdOf(c.chain),
     thread_position |-> ThreadPositionOf(c.chain, c.message_id),
     thread_length |-> thread_length]

\* results[message_id] = tuple
Record(rs, message_id, tuple) ==
    [m \in DOMAIN rs \cup {message_id} |-> IF m = message_id THEN tuple ELSE rs[m]]

\* No email-thread-reconstruction scan is being processed.
GraphIdle ==
    /\ emails = <<>>
    /\ docs = <<>>
    /\ by_message_id = NoThreads
    /\ children = NoThreads
    /\ roots = <<>>
    /\ threads = NoThreads
    /\ thread_lists = <<>>

\* reconstruct_thread is called for every message of the map, as
\* generate_thread_index does (lines 381-382), and then once with a
\* message_id that is empty or not in the map.
InitThread ==
    /\ pc = "rt_idle"
    /\ VoiceIdle
    /\ SummaryIdle
    /\ HookIdle
    /\ SaveIdle
    /\ UpdIdle
    /\ FaultIdle
    /\ ArdIdle
    /\ TripIdle
    /\ GraphIdle
    /\ LinkIdle
    /\ thread_map \in ThreadMaps
    /\ \E other \in {<<>>, UnknownId} : calls = Append(KeyOrder(thread_map), other)
    /\ call = NoCall
    /\ results = NoThreads

\* Lines 323-324: reconstruct_thread returns ('', 0, 0) at once.
RtReturnEarly ==
    /\ pc = "rt_idle"
    /\ calls # <<>>
    /\ ~Known(thread_map, Head(calls))
    /\ results' = Record(results, Head(calls), EarlyReturn)
    /\ calls' = Tail(calls)
    /\ pc' = IF calls' = <<>> THEN "rt_done" ELSE "rt_idle"
    /\ UNCHANGED <<graph_vars, thread_map, call, link_vars, trip_vars, ard_vars, fault_vars, upd_vars, save_vars, hook_vars, summary_vars, voice_vars>>

\* Lines 326-329: the walk starts at the message itself.
RtStart ==
    /\ pc = "rt_idle"
    /\ calls # <<>>
    /\ Known(thread_map, Head(calls))
    /\ call' = StartWalk(Head(calls))
    /\ calls' = Tail(calls)
    /\ pc' = "rt_walk"
    /\ UNCHANGED <<graph_vars, thread_map, results, link_vars, trip_vars, ard_vars, fault_vars, upd_vars, save_vars, hook_vars, summary_vars, voice_vars>>

\* One iteration of the while loop that does not break.
RtWalkBack ==
    /\ pc = "rt_walk"
    /\ ~WalkBreaks(thread_map, call)
    /\ call' = WalkBack(thread_map, call)
    /\ UNCHANGED <<pc, graph_vars, thread_map, calls, results, link_vars, trip_vars, ard_vars, fault_vars, upd_vars, save_vars, hook_vars, summary_vars, voice_vars>>

\* The while loop breaks; line 367 calls count_descendants(thread_id, set()).
RtWalkBreak ==
    /\ pc = "rt_walk"
    /\ WalkBreaks(thread_map, call)
    /\ call' = EnterCount(thread_map, call, ThreadIdOf(call.chain))
    /\ pc' = "rt_count"
    /\ UNCHANGED <<graph_vars, thread_map, calls, results, link_vars, trip_vars, ard_vars, fault_vars, upd_vars, save_vars, hook_vars, summary_vars, voice_vars>>

\* The for loop of the innermost count_descendants call takes its next item.
RtCountItem ==
    /\ pc = "rt_count"
    /\ Top(call).update_todo # <<>>
    /\ call' = CountItem(thread_map, call)
    /\ UNCHANGED <<pc, graph_vars, thread_map, calls, results, link_vars, trip_vars, ard_vars, fault_vars, upd_vars, save_vars, hook_vars, summary_vars, voice_vars>>

\* A nested count_descendants call returns its count.
RtCountReturn ==
    /\ pc = "rt_count"
    /\ Top(call).update_todo = <<>>
    /\ Len(call.stack) > 1
    /\ call' = CountReturn(call)
    /\ UNCHANGED <<pc, graph_vars, thread_map, calls, results, link_vars, trip_vars, ard_vars, fault_vars, upd_vars, save_vars, hook_vars, summary_vars, voice_vars>>

\* The outermost count_descendants call returns thread_length, and
\* reconstruct_thread returns its tuple.
RtReturn ==
    /\ pc = "rt_count"
    /\ Top(call).update_todo = <<>>
    /\ Len(call.stack) = 1
    /\ results' = Record(results, call.message_id, Returned(call, Top(call).count))
    /\ call' = [call EXCEPT !.stack = <<>>]
    /\ pc' = IF calls = <<>> THEN "rt_done" ELSE "rt_idle"
    /\ UNCHANGED <<graph_vars, thread_map, calls, link_vars, trip_vars, ard_vars, fault_vars, upd_vars, save_vars, hook_vars, summary_vars, voice_vars>>

NextThread ==
    \/ RtReturnEarly
    \/ RtStart
    \/ RtWalkBack
    \/ RtWalkBreak
    \/ RtCountItem
    \/ RtCountReturn
    \/ RtReturn

SpecThread == InitThread /\ [][NextThread]_vars

\* Every call is run to its end: the interpreter executes the next statement.
FairSpecThread == SpecThread /\ WF_vars(NextThread)

\* --------------------------- cross-document-linking.py: text and frontmatter

\* File contents are sequences of tokens.  Whitespace, punctuation and the
\* dashes are one character each; a word that no search pattern of the code
\* can match inside (a key, a file stem, ".md", a heading) is one token.

\* str.startswith
StartsWith(s, prefix) ==
    Len(s) >= Len(prefix) /\ SubSeq(s, 1, Len(prefix)) = prefix

\* str.endswith
EndsWith(s, suffix) ==
    Len(s) >= Len(suffix) /\ SubSeq(s, Len(s) - Len(suffix) + 1, Len(s)) = suffix

\* s[a:b] for 0 <= a
Slice(s, a, b) == SubSeq(s, a + 1, IF b < Len(s) THEN b ELSE Len(s))

\* s[a:]
From(s, a) == SubSeq(s, a + 1, Len(s))

\* str.find(sub, start): the 0-based index of the first occurrence of sub at
\* or after start, -1 when there is none.
Find(s, sub, start) ==
    LET hits == {k \in start..(Len(s) - Len(sub)) : SubSeq(s, k + 1, k + Len(sub)) = sub}
    IN  IF hits = {} THEN -1 ELSE CHOOSE k \in hits : \A h \in hits : k <= h

\* sub in s
Contains(s, sub) == Find(s, sub, 0) # -1

RECURSIVE Split(_, _)
\* str.split(sep)
Split(s, sep) ==
    LET k == Find(s, sep, 0)
    IN  IF k = -1 THEN <<s>>
        ELSE <<Slice(s, 0, k)>> \o Split(From(s, k + Len(sep)), sep)

RECURSIVE Join(_, _)
\* sep.join(parts)
Join(parts, sep) ==
    IF parts = <<>> THEN <<>>
    ELSE IF Len(parts) = 1 THEN parts[1]
    ELSE parts[1] \o sep \o Join(Tail(parts), sep)

RECURSIVE RStripColon(_)
\* line.rstrip(":")
RStripColon(s) ==
    IF s # <<>> /\ s[Len(s)] = ":" THEN RStripColon(SubSeq(s, 1, Len(s) - 1)) ELSE s

\* A frontmatter dict is the sequence of its entries in insertion order.  An
\* entry holds a string (the one element of items), a list of strings
\* (items) or a dict of lists (sub: entries of key and items).
StrEntry(key, value) ==
    [key |-> key, kind |-> "str", items |-> <<value>>, sub |-> <<>>]

ListEntry(key, items) ==
    [key |-> key, kind |-> "list", items |-> items, sub |-> <<>>]

DictEntry(key, sub) ==
    [key |-> key, kind |-> "dict", items |-> <<>>, sub |-> sub]

\* key in fm_dict
HasKey(fm, key) == \E k \in DOMAIN fm : fm[k].key = key

\* fm_dict[key]
Entry(fm, key) == fm[CHOOSE k \in DOMAIN fm : fm[k].key = key]

\* fm_dict[e.key] = e: in place when the key exists, else at the end.
Put(fm, e) ==
    IF HasKey(fm, e.key)
    THEN [k \in DOMAIN fm |-> IF fm[k].key = e.key THEN e ELSE fm[k]]
    ELSE Append(fm, e)

\* "Save previous list if any" (lines 59-61, and 87-88 after the loop)
SaveList(st) ==
    IF st.current_key # <<>> /\ st.current_list # <<>>
    THEN [st EXCEPT !.fm = Put(st.fm, ListEntry(st.current_key, st.current_list)),
                    !.current_list = <<>>]
    ELSE st

\* The items of an inline list "[item1, item2]" (lines 73-75)
InlineItems(v) ==
    LET parts == Split(SubSeq(v, 2, Len(v) - 1), <<",">>)
        items == [k \in DOMAIN parts |-> Strip(parts[k])]
    IN  SelectSeq(items, LAMBDA item : item # <<>>)

\* One round of the loop of lines 50-84.  current_key is the empty string
\* for None: the code only tests it for truth.
ParseLine(st, line) ==
    IF StartsWith(Strip(line), <<"-", " ">>)
    THEN IF st.current_key # <<>>
         THEN [st EXCEPT !.current_list = Append(@, From(Strip(line), 2))]
         ELSE st
    ELSE IF Contains(line, <<":">>) /\ ~StartsWith(line, <<" ">>)
    THEN LET s1    == SaveList(st)
             k     == Find(line, <<":", " ">>, 0)
             key   == IF k # -1 THEN Slice(line, 0, k) ELSE RStripColon(line)
             value == IF k # -1 THEN From(line, k + 2) ELSE <<>>
             v     == Strip(value)
         IN  IF StartsWith(v, <<"[">>) /\ EndsWith(v, <<"]">>)
             THEN [s1 EXCEPT !.fm = Put(@, ListEntry(Strip(key), InlineItems(v))),
                             !.current_key = <<>>]
             ELSE IF v # <<>>
             THEN [s1 EXCEPT !.fm = Put(@, StrEntry(Strip(key), v)),
                             !.current_key = <<>>]
             ELSE [s1 EXCEPT !.current_key = Strip(key)]
    ELSE st

RECURSIVE ParseLines(_, _)
ParseLines(st, lines) ==
    IF lines = <<>> THEN st ELSE ParseLines(ParseLine(st, Head(lines)), Tail(lines))

\* parse_frontmatter (lines 31-90): (fm_dict, fm_text, body)
parse_frontmatter(content) ==
    LET end == Find(content, <<"\n", "-", "-", "-">>, 3)
    IN  IF ~StartsWith(content, <<"-", "-", "-">>) \/ end = -1
        THEN [fm_dict |-> <<>>, fm_text |-> <<>>, body |-> content]
        ELSE LET fm_text == Slice(content, 4, end)
                 st == ParseLines([fm |-> <<>>, current_key |-> <<>>, current_list |-> <<>>],
                                  Split(fm_text, <<"\n">>))
             IN  [fm_dict |-> SaveList(st).fm,
                  fm_text |-> fm_text,
                  body    |-> LStrip(From(content, end + 4))]

RECURSIVE Concat(_)
\* The concatenation of a list of lists.
Concat(ls) == IF ls = <<>> THEN <<>> ELSE Head(ls) \o Concat(Tail(ls))

\* The lines serialize_frontmatter emits for one (key, value) of the dict
\* (lines 97-117).
EntryLines(e) ==
    IF e.kind = "dict"
    THEN <<e.key \o <<":">>>> \o
         Concat([k \in DOMAIN e.sub |->
            IF e.sub[k].items = <<>> THEN <<>>
            ELSE <<<<" ", " ">> \o e.sub[k].key \o <<":">>>> \o
                 [j \in DOMAIN e.sub[k].items |->
                    <<" ", " ", " ", " ", "-", " ">> \o e.sub[k].items[j]]])
    ELSE IF e.kind = "list"
    THEN IF e.items = <<>> THEN <<>>
         ELSE <<e.key \o <<":">>>> \o
              [j \in DOMAIN e.items |-> <<" ", " ", "-", " ">> \o e.items[j]]
    ELSE <<e.key \o <<":", " ">> \o e.items[1]>>

\* serialize_frontmatter (lines 93-119)
serialize_frontmatter(fm_dict) ==
    Join(Concat([k \in DOMAIN fm_dict |-> EntryLines(fm_dict[k])]), <<"\n">>)

\* --------------------------------- cross-document-linking.py: relationships

\* frontmatter.get(key) of a key that holds a string; None, the empty string
\* and a key that holds a list are all the empty sequence (the documents
\* here keep message_id, in_reply_to and thread_id scalar).
Field(fm, key) ==
    IF HasKey(fm, key) /\ Entry(fm, key).kind = "str" THEN Entry(fm, key).items[1] ELSE <<>>

\* The relationship types in the order the builders create them in
\* Document.related_docs; a type without links is a key that is absent.
RelTypes ==
    <<"thread_parent", "thread_replies", "thread_siblings", "attachments", "shared_entities">>

NoRelated == [t \in {RelTypes[k] : k \in DOMAIN RelTypes} |-> <<>>]

\* Document(md_file, fm_dict, body) (lines 129-133)
Document(path, fm_dict, body) ==
    [path |-> path, frontmatter |-> fm_dict, body |-> body, related_docs |-> NoRelated]

\* other.path.relative_to(doc.path.parent) of a file of the same directory
RelPath(d) == d.path \o <<".md">>

DocIdx(ds) == 1..Len(ds)

\* The paths of the documents of ds with an index in keep, in list order.
Matching(ds, keep) ==
    LET idx == SelectSeq([k \in DocIdx(ds) |-> k], LAMBDA k : k \in keep)
    IN  [k \in DOMAIN idx |-> RelPath(ds[idx[k]])]

\* build_thread_relationships (lines 219-250) for document i
ThreadParent(ds, i) ==
    LET irt == Field(ds[i].frontmatter, <<"in_reply_to">>)
        named == {k \in DocIdx(ds) : Field(ds[k].frontmatter, <<"message_id">>) = irt}
    IN  IF irt # <<>> /\ named # {}
        THEN <<RelPath(ds[CHOOSE k \in named : \A j \in named : j <= k])>>
        ELSE <<>>

ThreadReplies(ds, i) ==
    LET mid == Field(ds[i].frontmatter, <<"message_id">>)
    IN  IF mid = <<>> THEN <<>>
        ELSE Matching(ds, {k \in DocIdx(ds) :
                Field(ds[k].frontmatter, <<"in_reply_to">>) = mid /\ ds[k].path # ds[i].path})

ThreadSiblings(ds, i) ==
    LET tid == Field(ds[i].frontmatter, <<"thread_id">>)
    IN  IF tid = <<>> THEN <<>>
        ELSE Matching(ds, {k \in DocIdx(ds) :
                Field(ds[k].frontmatter, <<"thread_id">>) = tid /\ ds[k].path # ds[i].path})

\* find_attachment_documents (lines 202-212) and build_attachment_relationships
\* (lines 283-290): the *.md files of the folder named like the document,
\* without the raw headers files, relative to the document's directory.
AttachmentLinks(fo, d) ==
    LET kept == SelectSeq(fo[d.path], LAMBDA f :
                    ~EndsWith(SubSeq(f, 1, Len(f) - 1), <<"-raw-headers">>))
    IN  [k \in DOMAIN kept |-> d.path \o <<"/">> \o kept[k]]

EntityTypes == {<<"people">>, <<"organisations">>, <<"properties">>, <<"locations">>, <<"dates">>}

\* Document.get_all_entities (lines 156-181): parse_frontmatter never yields
\* a dict, so the values come from the per-type fields.
AllEntities(fm) ==
    UNION {{fm[k].items[j] : j \in DOMAIN fm[k].items} :
              k \in {k \in DOMAIN fm : fm[k].key \in EntityTypes /\ fm[k].kind # "dict"}}

\* --min-shared-entities default
MinSharedEntities == 2

\* build_entity_relationships (lines 253-280) for document i.  shared_counts
\* is filled in the iteration order of a set of strings; it lists the other
\* documents here in list order.
SharedEntityLinks(ds, i, min_shared) ==
    Matching(ds, {k \in DocIdx(ds) :
        /\ ds[k].path # ds[i].path
        /\ AllEntities(ds[i].frontmatter) \cap AllEntities(ds[k].frontmatter) # {}
        /\ Cardinality(AllEntities(ds[i].frontmatter) \cap AllEntities(ds[k].frontmatter))
              >= min_shared})

\* The three builders as main() calls them (lines 438-446).
BuildAll(ds, fo) ==
    [i \in DocIdx(ds) |->
        [ds[i] EXCEPT !.related_docs =
            [t \in DOMAIN NoRelated |->
                CASE t = "thread_parent"   -> ThreadParent(ds, i)
                  [] t = "thread_replies"  -> ThreadReplies(ds, i)
                  [] t = "thread_siblings" -> ThreadSiblings(ds, i)
                  [] t = "attachments"     -> AttachmentLinks(fo, ds[i])
                  [] OTHER                 -> SharedEntityLinks(ds, i, MinSharedEntities)]]]

\* ------------------------------- cross-document-linking.py: update and main

\* Path(link).stem: the last component without its suffix.
Stem(link) == <<link[Len(link) - 1]>>

NavLabel(t) ==
    CASE t = "thread_parent"   -> "**Thread Parent:**"
      [] t = "thread_replies"  -> "**Thread Replies:**"
      [] t = "thread_siblings" -> "**Thread Siblings:**"
      [] t = "attachments"     -> "**Attachments:**"
      [] OTHER                 -> "**Related by Entities:**"

\* not doc.related_docs
NoRelationships(d) == \A t \in DOMAIN d.related_docs : d.related_docs[t] = <<>>

\* generate_navigation_links (lines 297-332)
generate_navigation_links(d) ==
    IF NoRelationships(d) THEN <<>>
    ELSE <<"\n", "-", "-", "-", "\n", "## Related Documents", "\n">> \o
         Concat([k \in DOMAIN RelTypes |->
            LET links == d.related_docs[RelTypes[k]]
            IN  IF links = <<>> THEN <<>>
                ELSE <<"\n", NavLabel(RelTypes[k]), "\n">> \o
                     Concat([j \in DOMAIN links |->
                        <<"-", " ", "[">> \o Stem(links[j]) \o <<"]", "(">>
                            \o links[j] \o <<")", "\n">>])])

RECURSIVE InsertSorted(_, _)
InsertSorted(sorted, link) ==
    IF sorted = <<>> THEN <<link>>
    ELSE IF link = Head(sorted) THEN sorted
    ELSE IF StrLess(link, Head(sorted)) THEN <<link>> \o sorted
    ELSE <<Head(sorted)>> \o InsertSorted(Tail(sorted), link)

RECURSIVE SortedSet(_)
\* sorted(set(links))
SortedSet(links) ==
    IF links = <<>> THEN <<>>
    ELSE InsertSorted(SortedSet(SubSeq(links, 1, Len(links) - 1)), links[Len(links)])

\* fm_dict["related_docs"] of lines 347-350
RelatedDocsEntry(d) ==
    LET present == SelectSeq(RelTypes, LAMBDA t : d.related_docs[t] # <<>>)
    IN  DictEntry(<<"related_docs">>,
            [k \in DOMAIN present |->
                [key |-> <<present[k]>>, items |-> SortedSet(d.related_docs[present[k]])]])

nav_marker == <<"\n", "-", "-", "-", "\n", "## Related Documents", "\n">>

\* Lines 352-355: the body without an existing navigation section.
WithoutNavigation(body) ==
    IF Contains(body, nav_marker)
    THEN RStrip(Split(body, nav_marker)[1])
    ELSE body

\* new_content of update_document (lines 343-363) for document d whose file
\* holds content.
NewContent(d, content) ==
    LET parsed == parse_frontmatter(content)
        new_fm == serialize_frontmatter(Put(parsed.fm_dict, RelatedDocsEntry(d)))
    IN  <<"-", "-", "-", "\n">> \o new_fm \o <<"\n", "-", "-", "-", "\n", "\n">>
            \o WithoutNavigation(parsed.body) \o generate_navigation_links(d)

\* The *.md files of the directory in glob order, without the raw headers
\* files (lines 414-419).
MdFiles(fs) ==
    SelectSeq(<< <<"a">>, <<"b">> >>,
              LAMBDA f : f \in DOMAIN fs /\ ~EndsWith(f, <<"-raw-headers">>))

\* main() up to the parsed documents (lines 413-436).
Scan ==
    /\ pc \in {"link_start", "link_done"}
    /\ run < Runs
    /\ run' = run + 1
    /\ updated' = {}
    /\ LET md_files == MdFiles(files)
       IN  IF md_files = <<>>
           THEN /\ pc' = "link_done"
                /\ documents' = <<>>
           ELSE /\ pc' = "parsed"
                /\ documents' =
                      [k \in DOMAIN md_files |->
                          LET parsed == parse_frontmatter(files[md_files[k]])
                          IN  Document(md_files[k], parsed.fm_dict, parsed.body)]
    /\ UNCHANGED <<files, folders, dry_run, graph_vars, thread_vars, trip_vars, ard_vars, fault_vars, upd_vars, save_vars, hook_vars, summary_vars, voice_vars>>

\* The relationship builders (lines 438-446).
BuildRelationships ==
    /\ pc = "parsed"
    /\ documents' = BuildAll(documents, folders)
    /\ pc' = "linked"
    /\ UNCHANGED <<files, folders, dry_run, run, updated, graph_vars, thread_vars, trip_vars, ard_vars, fault_vars, upd_vars, save_vars, hook_vars, summary_vars, voice_vars>>

\* One round of the loop of lines 449-452: update_document (lines 335-372)
\* on the next document of the list.  An error raised by write_text (line
\* 370) is caught neither by update_document nor by main(): the run ends.
UpdateDocument ==
    /\ pc = "linked"
    /\ documents # <<>>
    /\ LET doc == Head(documents)
       IN  IF NoRelationships(doc)
           THEN /\ documents' = Tail(documents)
                /\ UNCHANGED <<pc, files, updated>>
           ELSE IF ~dry_run /\ doc.path \in unwritable
           THEN /\ pc' = "link_aborted"
                /\ UNCHANGED <<files, updated, documents>>
           ELSE /\ updated' = updated \cup {doc.path}
                /\ files' = IF dry_run THEN files
                            ELSE [files EXCEPT ![doc.path] = NewContent(doc, files[doc.path])]
                /\ documents' = Tail(documents)
                /\ UNCHANGED pc
    /\ UNCHANGED <<folders, dry_run, run, graph_vars, thread_vars, trip_vars, ard_vars, fault_vars, upd_vars, save_vars, hook_vars, summary_vars, voice_vars>>

\* The summary and return of main() (lines 454-456).
Report ==
    /\ pc = "linked"
    /\ documents = <<>>
    /\ pc' = "link_done"
    /\ UNCHANGED <<files, folders, dry_run, run, documents, updated, graph_vars, thread_vars, trip_vars, ard_vars, fault_vars, upd_vars, save_vars, hook_vars, summary_vars, voice_vars>>

NextLink == Scan \/ BuildRelationships \/ UpdateDocument \/ Report

\* "---\n" + lines + "\n---\n\n": the frontmatter block email-to-markdown
\* writes before the body.
Header(lines) ==
    <<"-", "-", "-", "\n">> \o Join(lines, <<"\n">>) \o <<"\n", "-", "-", "-", "\n", "\n">>

\* The text before the body of the document called name, next to the
\* document called other: no frontmatter at all, a reply to the other
\* document, a thread member with an inline list of people, or a message
\* with a block list of people.
Headers(name, other) ==
    { <<>>,
      Header(<< <<"message_id", ":", " ">> \o name,
                <<"in_reply_to", ":", " ">> \o other >>),
      Header(<< <<"thread_id", ":", " ", "t">>,
                <<"people", ":", " ", "[", "x", ",", " ", "y", "]">> >>),
      Header(<< <<"message_id", ":", " ">> \o name,
                <<"people", ":">>,
                <<" ", " ", "-", " ", "x">>,
                <<" ", " ", "-", " ", "y">> >>) }

BodyChars == {"x", "\n"}

\* The document bodies of at most n characters.
Bodies(n) == UNION {[1..k -> BodyChars] : k \in 0..n}

\* The attachment folder of document a: none, or one with a converted
\* attachment and its raw headers file.
Folders ==
    { <<>>, << <<"h", "-raw-headers", ".md">>, <<"i", ".md">> >> }

\* A directory of two documents a.md and b.md.
InitLink ==
    /\ pc = "link_start"
    /\ VoiceIdle
    /\ SummaryIdle
    /\ HookIdle
    /\ SaveIdle
    /\ UpdIdle
    /\ FaultIdle
    /\ ArdIdle
    /\ TripIdle
    /\ GraphIdle
    /\ ThreadIdle
    /\ \E ha \in Headers(<<"a">>, <<"b">>), hb \in Headers(<<"b">>, <<"a">>),
          ba \in Bodies(MaxBody), bb \in Bodies(MaxBody - 1) :
          files = [f \in {<<"a">>, <<"b">>} |-> IF f = <<"a">> THEN ha \o ba ELSE hb \o bb]
    /\ \E fa \in Folders :
          folders = [f \in {<<"a">>, <<"b">>} |-> IF f = <<"a">> THEN fa ELSE <<>>]
    /\ dry_run \in BOOLEAN
    /\ run = 0
    /\ documents = <<>>
    /\ updated = {}

SpecLink == InitLink /\ [][NextLink]_vars

\* -------------------------------------------- add-related-docs.py: PyYAML

\* yaml.safe_load and yaml.dump are PyYAML's; they are modelled on the block
\* style subset the frontmatter of these documents uses: mappings, block
\* sequences (indented or not), plain and quoted scalars, integers, null,
\* and flow sequences of plain scalars.  A YAML value is a node
\* [kind, text, int, keys, items]: kind "str" with text, "int" with int,
\* "null", "list" with items, "dict" with keys and items (the values), or
\* "error" for a text that raises yaml.YAMLError.
StrNode(t) == [kind |-> "str", text |-> t, int |-> 0, keys |-> <<>>, items |-> <<>>]

IntNode(n) == [kind |-> "int", text |-> <<>>, int |-> n, keys |-> <<>>, items |-> <<>>]

NullNode == [kind |-> "null", text |-> <<>>, int |-> 0, keys |-> <<>>, items |-> <<>>]

ListNode(items) == [kind |-> "list", text |-> <<>>, int |-> 0, keys |-> <<>>, items |-> items]

DictNode(keys, items) == [kind |-> "dict", text |-> <<>>, int |-> 0, keys |-> keys, items |-> items]

ErrorNode == [kind |-> "error", text |-> <<>>, int |-> 0, keys |-> <<>>, items |-> <<>>]

Digits == <<"0", "1", "2", "3", "4", "5", "6", "7", "8", "9">>

IsDigit(c) == \E d \in DOMAIN Digits : Digits[d] = c

DigitValue(c) == (CHOOSE d \in DOMAIN Digits : Digits[d] = c) - 1

\* The node of a scalar or flow value written on one line.
YamlScalar(t) ==
    IF t = <<>> \/ t = <<"null">> \/ t = <<"~">> THEN NullNode
    ELSE IF t = <<"[", "]">> THEN ListNode(<<>>)
    ELSE IF t = <<"{", "}">> THEN DictNode(<<>>, <<>>)
    ELSE IF Len(t) >= 2 /\ t[1] = "[" /\ t[Len(t)] = "]"
    THEN LET parts == Split(SubSeq(t, 2, Len(t) - 1), <<",">>)
         IN  ListNode([k \in DOMAIN parts |-> StrNode(Strip(parts[k]))])
    ELSE IF Len(t) >= 2 /\ t[1] \in {"\"", "'"} /\ t[Len(t)] = t[1]
    THEN StrNode(SubSeq(t, 2, Len(t) - 1))
    ELSE IF Len(t) = 1 /\ IsDigit(t[1]) THEN IntNode(DigitValue(t[1]))
    ELSE StrNode(t)

RECURSIVE Indent(_)
\* The number of blanks a line starts with.
Indent(line) ==
    IF line # <<>> /\ Head(line) = " " THEN 1 + Indent(Tail(line)) ELSE 0

\* The line is a sequence item "- ..." at indentation i.
IsItem(line, i) == Indent(line) = i /\ StartsWith(From(line, i), <<"-", " ">>)

\* The lines of a block cut into the entries that start at the lines in heads.
Chunks(lines, heads) ==
    LET idx == SelectSeq([k \in DOMAIN lines |-> k], LAMBDA k : k \in heads)
    IN  [c \in DOMAIN idx |->
            SubSeq(lines, idx[c],
                   IF c < Len(idx) THEN idx[c + 1] - 1 ELSE Len(lines))]

RECURSIVE YamlBlock(_)
\* The node of a block of lines: a sequence when it starts with an item, a
\* mapping otherwise.  An entry owns the deeper lines after it, and a mapping
\* entry also the items at its own indentation.
YamlBlock(lines) ==
    LET i == Indent(lines[1])
    IN  IF IsItem(lines[1], i)
        THEN LET heads  == {k \in DOMAIN lines : IsItem(lines[k], i)}
                 chunks == Chunks(lines, heads)
                 Item(chunk) ==
                     LET rest == From(chunk[1], i + 2)
                     IN  IF Len(chunk) = 1 /\ ~Contains(rest, <<":", " ">>)
                                           /\ ~EndsWith(rest, <<":">>)
                         THEN YamlScalar(rest)
                         ELSE YamlBlock(<<[k \in 1..(i + 2) |-> " "] \o rest>> \o Tail(chunk))
             IN  IF \E k \in DOMAIN lines : Indent(lines[k]) <= i /\ k \notin heads
                 THEN ErrorNode
                 ELSE ListNode([c \in DOMAIN chunks |-> Item(chunks[c])])
        ELSE LET heads  == {k \in DOMAIN lines : Indent(lines[k]) = i /\ ~IsItem(lines[k], i)}
                 chunks == Chunks(lines, heads)
                 text(chunk) == From(chunk[1], i)
                 colon(chunk) == Find(text(chunk), <<":", " ">>, 0)
                 Key(chunk) ==
                     IF colon(chunk) # -1 THEN Slice(text(chunk), 0, colon(chunk))
                     ELSE SubSeq(text(chunk), 1, Len(text(chunk)) - 1)
                 Value(chunk) ==
                     IF colon(chunk) # -1
                     THEN IF Len(chunk) > 1 THEN ErrorNode
                          ELSE YamlScalar(Strip(From(text(chunk), colon(chunk) + 2)))
                     ELSE IF Len(chunk) > 1 THEN YamlBlock(Tail(chunk)) ELSE NullNode
             IN  IF \/ \E k \in DOMAIN lines : Indent(lines[k]) < i
                    \/ \E c \in DOMAIN chunks :
                          colon(chunks[c]) = -1 /\ ~EndsWith(text(chunks[c]), <<":">>)
                 THEN ErrorNode
                 ELSE DictNode([c \in DOMAIN chunks |-> Key(chunks[c])],
                               [c \in DOMAIN chunks |-> Value(chunks[c])])

RECURSIVE HasError(_)
HasError(node) ==
    node.kind = "error" \/ \E k \in DOMAIN node.items : HasError(node.items[k])

\* yaml.safe_load(text): None for an empty document.
safe_load(text) ==
    LET lines == SelectSeq(Split(text, <<"\n">>), LAMBDA line : Strip(line) # <<>>)
    IN  IF lines = <<>> THEN NullNode
        ELSE LET node == YamlBlock(lines)
             IN  IF HasError(node) THEN ErrorNode ELSE node

\* A string is written plain when the plain text loads as that string, and
\* in single quotes otherwise.
ScalarText(node) ==
    CASE node.kind = "int"  -> <<Digits[node.int + 1]>>
      [] node.kind = "null" -> <<"null">>
      [] node.kind = "list" -> <<"[", "]">>
      [] node.kind = "dict" -> <<"{", "}">>
      [] OTHER -> IF YamlScalar(node.text) = StrNode(node.text) /\ ~Contains(node.text, <<":">>)
                  THEN node.text
                  ELSE <<"'">> \o node.text \o <<"'">>

\* The value is written on the line of its key or item.
IsInline(node) == node.kind \notin {"list", "dict"} \/ node.items = <<>>

Blanks(n) == [k \in 1..n |-> " "]

RECURSIVE YamlLines(_, _)
\* The lines yaml.dump(default_flow_style=False, sort_keys=False) writes for
\* a non-empty mapping or sequence at indentation n: sequences are not
\* indented under their key, mappings by two blanks.
YamlLines(node, n) ==
    IF node.kind = "dict"
    THEN Concat([k \in DOMAIN node.keys |->
            LET value == node.items[k]
            IN  IF IsInline(value)
                THEN <<Blanks(n) \o node.keys[k] \o <<":", " ">> \o ScalarText(value)>>
                ELSE <<Blanks(n) \o node.keys[k] \o <<":">>>> \o
                     YamlLines(value, IF value.kind = "list" THEN n ELSE n + 2)])
    ELSE Concat([k \in DOMAIN node.items |->
            LET item == node.items[k]
            IN  IF IsInline(item)
                THEN <<Blanks(n) \o <<"-", " ">> \o ScalarText(item)>>
                ELSE LET below == YamlLines(item, n + 2)
                     IN  <<Blanks(n) \o <<"-", " ">> \o From(below[1], n + 2)>> \o Tail(below)])

\* yaml.dump(metadata, default_flow_style=False, allow_unicode=True, sort_keys=False)
yaml_dump(node) ==
    IF IsInline(node) THEN ScalarText(node) \o <<"\n">>
    ELSE LET lines == YamlLines(node, 0)
         IN  Concat([k \in DOMAIN lines |-> lines[k] \o <<"\n">>])

\* ------------------------------------------ add-related-docs.py (lines 28-316)

\* dict.get(key): the value, None when the key is missing or the node is
\* not a dict.
Get(node, key) ==
    IF node.kind = "dict" /\ \E k \in DOMAIN node.keys : node.keys[k] = key
    THEN node.items[CHOOSE k \in DOMAIN node.keys : node.keys[k] = key]
    ELSE NullNode

\* bool(value)
Truthy(node) ==
    CASE node.kind = "str"  -> node.text # <<>>
      [] node.kind = "int"  -> node.int # 0
      [] node.kind = "null" -> FALSE
      [] OTHER              -> node.items # <<>>

\* frontmatter[key] = value: in place when the key exists, else at the end.
SetKey(node, key, value) ==
    IF \E k \in DOMAIN node.keys : node.keys[k] = key
    THEN [node EXCEPT !.items = [k \in DOMAIN node.keys |->
                                    IF node.keys[k] = key THEN value ELSE node.items[k]]]
    ELSE [node EXCEPT !.keys = Append(@, key), !.items = Append(@, value)]

\* parse_frontmatter of add-related-docs.py (lines 28-46): frontmatter (None
\* as the null node) and body.
ard_parse_frontmatter(content) ==
    LET fence == Find(content, <<"\n", "-", "-", "-", "\n">>, 0)
        NoFrontmatter == [frontmatter |-> NullNode, body |-> content]
    IN  IF ~StartsWith(content, <<"-", "-", "-", "\n">>) \/ fence = -1
        THEN NoFrontmatter
        ELSE LET loaded == safe_load(From(Slice(content, 0, fence), 4))
             IN  IF loaded.kind = "error" THEN NoFrontmatter
                 ELSE [frontmatter |-> loaded, body |-> From(content, fence + 5)]

\* build_frontmatter_yaml (lines 49-52)
build_frontmatter_yaml(metadata) ==
    <<"-", "-", "-", "\n">> \o yaml_dump(metadata) \o <<"-", "-", "-">>

\* find_attachments (lines 55-77): the files named in the frontmatter's
\* attachments list that exist in <stem>_attachments/.
find_attachments(md_file, frontmatter, dirs) ==
    LET listed == Get(frontmatter, <<"attachments">>)
        named  == SelectSeq(IF listed.kind = "list" THEN listed.items ELSE <<>>,
                    LAMBDA att : /\ att.kind = "dict"
                                 /\ \E k \in DOMAIN att.keys : att.keys[k] = <<"filename">>
                                 /\ Get(att, <<"filename">>).text \in dirs[md_file])
    IN  [k \in DOMAIN named |->
            md_file \o <<"_attachments", "/">> \o Get(named[k], <<"filename">>).text]

\* doc_meta.get('thread_position', 0) of an integer position
PositionOf(meta) == Get(meta, <<"thread_position">>).int

RECURSIVE InsertByPosition(_, _)
InsertByPosition(sorted, d) ==
    IF sorted = <<>> THEN <<d>>
    ELSE IF d.pos < Head(sorted).pos THEN <<d>> \o sorted
    ELSE <<Head(sorted)>> \o InsertByPosition(Tail(sorted), d)

RECURSIVE SortByPosition(_)
\* thread_docs.sort(key=lambda x: x[1]): stable
SortByPosition(ds) ==
    IF ds = <<>> THEN <<>>
    ELSE InsertByPosition(SortByPosition(SubSeq(ds, 1, Len(ds) - 1)), ds[Len(ds)])

\* find_thread_siblings (lines 80-113): previous and next as relative paths,
\* the empty path for None.
find_thread_siblings(md_file, frontmatter, docs_) ==
    LET thread_id == Get(frontmatter, <<"thread_id">>)
        same == SelectSeq(docs_, LAMBDA d : Get(d.meta, <<"thread_id">>) = thread_id)
        thread_docs == SortByPosition([k \in DOMAIN same |->
                          [path |-> same[k].path, pos |-> PositionOf(same[k].meta)]])
        here == {k \in DOMAIN thread_docs : thread_docs[k].path = md_file}
    IN  IF ~Truthy(thread_id) \/ ~Truthy(Get(frontmatter, <<"thread_position">>)) \/ here = {}
        THEN [previous |-> <<>>, next |-> <<>>]
        ELSE LET i == CHOOSE k \in here : TRUE
             IN  [previous |-> IF i > 1 THEN thread_docs[i - 1].path \o <<".md">> ELSE <<>>,
                  next     |-> IF i < Len(thread_docs)
                               THEN thread_docs[i + 1].path \o <<".md">> ELSE <<>>]

\* The flattened entity set of lines 124-135 and 142-150: the strings of
\* every list under the entities dict, empty when there is no such dict.
EntitySet(meta) ==
    LET entities == Get(meta, <<"entities">>)
    IN  IF entities.kind # "dict" THEN {}
        ELSE UNION {{entities.items[k].items[j].text : j \in DOMAIN entities.items[k].items} :
                       k \in {k \in DOMAIN entities.items : entities.items[k].kind = "list"}}

RECURSIVE SortedStrings(_)
\* sorted(list(shared))
SortedStrings(S) ==
    IF S = {} THEN <<>>
    ELSE LET least == CHOOSE s \in S : \A t \in S : t = s \/ StrLess(s, t)
         IN  <<least>> \o SortedStrings(S \ {least})

RECURSIVE InsertByOverlap(_, _)
InsertByOverlap(sorted, match) ==
    IF sorted = <<>> THEN <<match>>
    ELSE IF Len(match.entities) > Len(Head(sorted).entities) THEN <<match>> \o sorted
    ELSE <<Head(sorted)>> \o InsertByOverlap(Tail(sorted), match)

RECURSIVE SortByOverlap(_)
\* matches.sort(key=lambda x: len(x['entities']), reverse=True): stable
SortByOverlap(matches) ==
    IF matches = <<>> THEN <<>>
    ELSE InsertByOverlap(SortByOverlap(SubSeq(matches, 1, Len(matches) - 1)),
                         matches[Len(matches)])

\* find_entity_matches (lines 116-165)
find_entity_matches(md_file, frontmatter, docs_, min_overlap) ==
    LET current == EntitySet(frontmatter)
        others  == SelectSeq(docs_, LAMBDA d :
                      /\ d.path # md_file
                      /\ Get(d.meta, <<"entities">>).kind = "dict"
                      /\ Truthy(Get(d.meta, <<"entities">>))
                      /\ Cardinality(current \cap EntitySet(d.meta)) >= min_overlap)
    IN  IF current = {} THEN <<>>
        ELSE SortByOverlap([k \in DOMAIN others |->
                [path     |-> others[k].path \o <<".md">>,
                 entities |-> SortedStrings(current \cap EntitySet(others[k].meta)),
                 title    |-> IF Get(others[k].meta, <<"title">>).kind = "str"
                              THEN Get(others[k].meta, <<"title">>).text
                              ELSE others[k].path]])

\* min_overlap default of find_entity_matches
MinOverlap == 1

\* The related_docs dict of lines 264-280.
RelatedDocs(md_file, frontmatter, docs_, dirs) ==
    [attachments     |-> find_attachments(md_file, frontmatter, dirs),
     thread_siblings |-> find_thread_siblings(md_file, frontmatter, docs_),
     entity_matches  |-> find_entity_matches(md_file, frontmatter, docs_, MinOverlap)]

HasSiblings(related) ==
    related.thread_siblings.previous # <<>> \/ related.thread_siblings.next # <<>>

\* A related_docs dict that never counts as empty.
NeverNothing(related) == FALSE

\* not related_docs (line 283)
NothingRelated(related) ==
    related.attachments = <<>> /\ ~HasSiblings(related) /\ related.entity_matches = <<>>

PathNode(path) == IF path = <<>> THEN NullNode ELSE StrNode(path)

\* related_docs as the value yaml.dump writes: only the keys that were set.
RelatedDocsNode(related) ==
    LET all == << [key |-> <<"attachments">>, set |-> related.attachments # <<>>,
                   value |-> ListNode([k \in DOMAIN related.attachments |->
                                          StrNode(related.attachments[k])])],
                  [key |-> <<"thread_siblings">>, set |-> HasSiblings(related),
                   value |-> DictNode(<< <<"previous">>, <<"next">> >>,
                                      << PathNode(related.thread_siblings.previous),
                                         PathNode(related.thread_siblings.next) >>)],
                  [key |-> <<"entity_matches">>, set |-> related.entity_matches # <<>>,
                   value |-> ListNode([k \in DOMAIN related.entity_matches |->
                      DictNode(<< <<"path">>, <<"entities">>, <<"title">> >>,
                               << StrNode(related.entity_matches[k].path),
                                  ListNode([j \in DOMAIN related.entity_matches[k].entities |->
                                      StrNode(related.entity_matches[k].entities[j])]),
                                  StrNode(related.entity_matches[k].title) >>)])] >>
        present == SelectSeq(all, LAMBDA e : e.set)
    IN  DictNode([k \in DOMAIN present |-> present[k].key],
                 [k \in DOMAIN present |-> present[k].value])

\* related_docs['entity_matches'][:10]
NavMatchLimit == 10

\* match['entities'][:5]
NavEntityLimit == 5

\* Path(att_path).name
PathName(path) ==
    LET slashes == {k \in DOMAIN path : path[k] = "/"}
    IN  IF slashes = {} THEN path
        ELSE From(path, CHOOSE k \in slashes : \A j \in slashes : j <= k)

\* "[label](path)"
NavLink(label, path) == <<"[">> \o label \o <<"]", "(">> \o path \o <<")">>

\* build_navigation_section (lines 168-209); "<-" and "->" are the arrows.
build_navigation_section(related) ==
    LET attachments ==
            IF related.attachments = <<>> THEN <<>>
            ELSE <<"### Attachments", "\n">> \o
                 Concat([k \in DOMAIN related.attachments |->
                    <<"-", " ">> \o NavLink(PathName(related.attachments[k]),
                                            related.attachments[k]) \o <<"\n">>])
        p == related.thread_siblings.previous
        n == related.thread_siblings.next
        thread ==
            IF ~HasSiblings(related) THEN <<>>
            ELSE <<"\n", "### Thread Navigation", "\n">> \o
                 (IF p = <<>> THEN <<>>
                  ELSE <<"-", " ", "<-", " ", "Previous", ":", " ">> \o
                       NavLink(SubSeq(p, 1, Len(p) - 1), p) \o <<"\n">>) \o
                 (IF n = <<>> THEN <<>>
                  ELSE <<"-", " ", "->", " ", "Next", ":", " ">> \o
                       NavLink(SubSeq(n, 1, Len(n) - 1), n) \o <<"\n">>)
        shown == SubSeq(related.entity_matches, 1,
                        IF Len(related.entity_matches) < NavMatchLimit
                        THEN Len(related.entity_matches) ELSE NavMatchLimit)
        entities ==
            IF related.entity_matches = <<>> THEN <<>>
            ELSE <<"\n", "### Related by Entities", "\n">> \o
                 Concat([k \in DOMAIN shown |->
                    LET es == shown[k].entities
                        first == SubSeq(es, 1, IF Len(es) < NavEntityLimit
                                               THEN Len(es) ELSE NavEntityLimit)
                    IN  <<"-", " ">> \o NavLink(shown[k].title, shown[k].path) \o
                        <<" ", "(">> \o Join(first, <<",", " ">>) \o
                        (IF Len(es) > NavEntityLimit
                         THEN <<" ", "(", "+", ToString(Len(es) - NavEntityLimit),
                                " ", "more", ")">>
                         ELSE <<>>) \o
                        <<")", "\n">>])
    IN  IF attachments \o thread \o entities = <<>> THEN <<>>
        ELSE <<"\n", "-", "-", "-", "\n", "\n", "## Related Documents", "\n", "\n">>
                 \o attachments \o thread \o entities

\* The body with an existing navigation section left in place.
body_kept(body) == body

\* re.sub(r'\n---\n\n## Related Documents\n.*$', '', body, flags=re.DOTALL)
body_clean(body) ==
    LET at == Find(body, <<"\n", "-", "-", "-", "\n", "\n", "## Related Documents", "\n">>, 0)
    IN  IF at = -1 THEN body ELSE Slice(body, 0, at)

\* new_content of add_related_docs (lines 287-296)
ArdNewContent(frontmatter, body, related) ==
    build_frontmatter_yaml(SetKey(frontmatter, <<"related_docs">>, RelatedDocsNode(related)))
        \o <<"\n", "\n">> \o Strip(body_clean(body))
        \o build_navigation_section(related) \o <<"\n">>

\* ------------------------------------------ add-related-docs.py: batch mode

\* The frontmatter lines email-to-markdown writes for a document: a title, a
\* place in thread "t" (position -1: not in a thread), an attachments list
\* and the entities of type people.
TitleLines(title) ==
    IF title = <<>> THEN <<>>
    ELSE << <<"title", ":", " ", "\"">> \o title \o <<"\"">> >>

ThreadLines(position) ==
    IF position = -1 THEN <<>>
    ELSE << <<"thread_id", ":", " ", "\"", "t", "\"">>,
            <<"thread_position", ":", " ", Digits[position + 1]>> >>

AttachmentLines(names) ==
    IF names = <<>> THEN <<>>
    ELSE <<  <<"attachments", ":">> >> \o
         Concat([k \in DOMAIN names |->
            << <<" ", " ", "-", " ", "filename", ":", " ">> \o names[k],
               <<" ", " ", " ", " ", "size", ":", " ", "3">> >>])

EntityLines(entities) ==
    IF entities = <<>> THEN <<>>
    ELSE << <<"entities", ":">>, <<" ", " ", "people", ":">> >> \o
         [k \in DOMAIN entities |-> <<" ", " ", " ", " ", "-", " ", entities[k]>>]

\* A document: frontmatter lines, when there are any, and a body.
DocText(lines, body) == IF lines = <<>> THEN body ELSE Header(lines) \o body

Names == << <<"a">>, <<"b">>, <<"c">> >>

EntityLists == { <<>>, <<"x">>, <<"y">>, <<"x", "y">> }

Directory(texts) == [f \in {Names[k] : k \in 1..3} |-> texts[CHOOSE k \in 1..3 : Names[k] = f]]

NoDirs == [f \in {Names[k] : k \in 1..3} |-> {}]

\* The orders in which rglob can yield the three files.
ScanOrders ==
    {o \in [1..3 -> {Names[k] : k \in 1..3}] : \A i, j \in 1..3 : o[i] = o[j] => i = j}

\* Directories of documents that differ in their entities; c has a title.
EntityDirectories ==
    { [files |-> Directory(<< DocText(EntityLines(ea), <<"x">>),
                              DocText(EntityLines(eb), <<"x">>),
                              DocText(TitleLines(<<"s">>) \o EntityLines(ec), <<"x">>) >>),
       dirs  |-> NoDirs, order |-> o] :
      ea \in EntityLists \ { <<"y">> }, eb \in EntityLists, ec \in EntityLists,
      o \in ScanOrders }

\* Directories of documents that differ in their place in a thread.
ThreadDirectories ==
    { [files |-> Directory(<< DocText(ThreadLines(pa), <<"x">>),
                              DocText(ThreadLines(pb), <<"x">>),
                              DocText(TitleLines(<<"s">>) \o ThreadLines(pc_), <<"x">>) >>),
       dirs  |-> NoDirs, order |-> o] :
      pa \in -1..2, pb \in -1..2, pc_ \in -1..2, o \in ScanOrders }

AttachmentNames == << <<"f", ".pdf">>, <<"g", ".md">>, <<"h", "-raw-headers", ".md">> >>

\* Directories where a names attachments and has an attachments directory
\* that holds any of the files.
AttachmentDirectories ==
    { [files |-> Directory(<< DocText(AttachmentLines(SubSeq(AttachmentNames, 1, n)), <<"x">>),
                              DocText(<<>>, <<"x">>),
                              DocText(TitleLines(<<"s">>), <<"x">>) >>),
       dirs  |-> [NoDirs EXCEPT ![<<"a">>] = held], order |-> Names] :
      n \in 0..3, held \in SUBSET {AttachmentNames[k] : k \in 1..3} }

\* Directories where a and b share an entity and a has any body.
BodyDirectories ==
    { [files |-> Directory(<< DocText(EntityLines(<<"x">>), body),
                              DocText(EntityLines(<<"x">>), <<"x">>),
                              DocText(<<>>, <<"x">>) >>),
       dirs  |-> NoDirs, order |-> Names] :
      body \in Bodies(MaxBody) }

InitArd ==
    /\ pc = "ard_start"
    /\ VoiceIdle
    /\ SummaryIdle
    /\ HookIdle
    /\ SaveIdle
    /\ UpdIdle
    /\ FaultIdle
    /\ GraphIdle
    /\ ThreadIdle
    /\ TripIdle
    /\ \E d \in EntityDirectories \cup ThreadDirectories
                  \cup AttachmentDirectories \cup BodyDirectories :
          /\ files = d.files
          /\ attachment_dirs = d.dirs
          /\ scan_order = d.order
    /\ dry_run \in BOOLEAN
    /\ run = 0
    /\ folders = <<>>
    /\ documents = <<>>
    /\ updated = {}
    /\ all_docs = <<>>
    /\ pending = <<>>

\* scan_directory (lines 212-233) as main() calls it (lines 352-354): the
\* files with a frontmatter that is not empty, in the order rglob yields
\* them.  The files of the attachment directories have no frontmatter.
scan_directory(fs, order) ==
    LET parsed == [k \in DOMAIN order |->
                      [path |-> order[k], meta |-> ard_parse_frontmatter(fs[order[k]]).frontmatter]]
    IN  SelectSeq(parsed, LAMBDA d : Truthy(d.meta))

ArdScan ==
    /\ pc \in {"ard_start", "ard_done"}
    /\ run < Runs
    /\ run' = run + 1
    /\ all_docs' = scan_directory(files, scan_order)
    /\ pending' = [k \in DOMAIN all_docs' |-> all_docs'[k].path]
    /\ updated' = {}
    /\ pc' = "ard_scanned"
    /\ UNCHANGED <<files, folders, dry_run, documents, attachment_dirs, scan_order>>
    /\ UNCHANGED <<graph_vars, thread_vars, trip_vars, fault_vars, upd_vars, save_vars, hook_vars, summary_vars, voice_vars>>

\* add_related_docs without the return of lines 298-306: a dry run writes.
add_related_docs_wet(md_file, parsed, docs_, dirs, dry) ==
    LET related == RelatedDocs(md_file, parsed.frontmatter, docs_, dirs)
    IN  IF ~Truthy(parsed.frontmatter) THEN [returns |-> FALSE, writes |-> FALSE, content |-> <<>>]
        ELSE IF NothingRelated(related) THEN [returns |-> FALSE, writes |-> FALSE, content |-> <<>>]
        ELSE [returns |-> TRUE, writes |-> TRUE,
              content |-> ArdNewContent(parsed.frontmatter, parsed.body, related)]

\* add_related_docs (lines 236-316) from line 256 on, parsed being the
\* frontmatter and body of the file's content: what it returns, whether it
\* writes the file, and the content it writes.
add_related_docs(md_file, parsed, docs_, dirs, dry) ==
    LET related == RelatedDocs(md_file, parsed.frontmatter, docs_, dirs)
    IN  IF ~Truthy(parsed.frontmatter) THEN [returns |-> FALSE, writes |-> FALSE, content |-> <<>>]
        ELSE IF NothingRelated(related) THEN [returns |-> FALSE, writes |-> FALSE, content |-> <<>>]
        ELSE IF dry THEN [returns |-> TRUE, writes |-> FALSE, content |-> <<>>]
        ELSE [returns |-> TRUE, writes |-> TRUE,
              content |-> ArdNewContent(parsed.frontmatter, parsed.body, related)]

\* One turn of the loop of main() (lines 356-359): add_related_docs reads and
\* parses the file (lines 246-255) and goes on with the parsed content.
AddRelatedDocs ==
    /\ pc = "ard_scanned"
    /\ pending # <<>>
    /\ \E parsed \in {ard_parse_frontmatter(files[Head(pending)])} :
          \E result \in {add_related_docs(Head(pending), parsed, all_docs,
                                          attachment_dirs, dry_run)} :
             /\ files' = IF result.writes
                         THEN [files EXCEPT ![Head(pending)] = result.content]
                         ELSE files
             /\ updated' = IF result.returns THEN updated \cup {Head(pending)} ELSE updated
    /\ pending' = Tail(pending)
    /\ UNCHANGED <<pc, folders, dry_run, run, documents, attachment_dirs, scan_order, all_docs>>
    /\ UNCHANGED <<graph_vars, thread_vars, trip_vars, fault_vars, upd_vars, save_vars, hook_vars, summary_vars, voice_vars>>

\* The count main() prints (line 361).
ArdReport ==
    /\ pc = "ard_scanned"
    /\ pending = <<>>
    /\ pc' = "ard_done"
    /\ UNCHANGED <<link_vars, ard_vars>>
    /\ UNCHANGED <<graph_vars, thread_vars, trip_vars, fault_vars, upd_vars, save_vars, hook_vars, summary_vars, voice_vars>>

NextArd == ArdScan \/ AddRelatedDocs \/ ArdReport

SpecArd == InitArd /\ [][NextArd]_vars

\* ------------------------- the two writers of related_docs, each on its own

\* A directory for cross-document-linking.py whose documents carry their
\* entities as email-to-markdown writes them, under the entities mapping, and
\* may be in one thread.
InitLinkEntities ==
    /\ pc = "link_start"
    /\ VoiceIdle
    /\ SummaryIdle
    /\ HookIdle
    /\ SaveIdle
    /\ GraphIdle
    /\ ThreadIdle
    /\ TripIdle
    /\ ArdIdle
    /\ UpdIdle
    /\ FaultIdle
    /\ \E ea \in EntityLists, eb \in EntityLists, in_thread \in BOOLEAN, body \in Bodies(MaxBody) :
          LET thread == IF in_thread THEN << <<"thread_id", ":", " ", "t">> >> ELSE <<>>
          IN  files = [f \in {<<"a">>, <<"b">>} |->
                          IF f = <<"a">>
                          THEN DocText(TitleLines(<<"s">>) \o thread \o EntityLines(ea), body)
                          ELSE DocText(TitleLines(<<"s">>) \o thread \o EntityLines(eb), <<"x">>)]
    /\ folders = [f \in {<<"a">>, <<"b">>} |-> <<>>]
    /\ dry_run \in BOOLEAN
    /\ run = 0
    /\ documents = <<>>
    /\ updated = {}

\* A run of cross-document-linking.py or a run of add-related-docs.py.
InitWriters == InitLink \/ InitLinkEntities \/ InitArd

NextWriters == NextLink \/ NextArd

SpecWriters == InitWriters /\ [][NextWriters]_vars

\* A run of either writer on documents whose entities are under the entities
\* mapping.
InitEntities == InitLinkEntities \/ InitArd

SpecEntities == InitEntities /\ [][NextWriters]_vars

\* The message header lines of the document called name: its message_id, and
\* an in_reply_to that names no document, the document itself or the other
\* document.
ReplyLines(name, others) ==
    { << <<"message_id", ":", " ">> \o name >> \o
         (IF irt = <<>> THEN <<>> ELSE << <<"in_reply_to", ":", " ">> \o irt >>) :
      irt \in {<<>>, name} \cup others }

\* A directory for cross-document-linking.py of two converted emails: each
\* replies to nobody, to itself or to the other, and may be in the thread t.
InitLinkReplies ==
    /\ pc = "link_start"
    /\ VoiceIdle
    /\ SummaryIdle
    /\ HookIdle
    /\ GraphIdle
    /\ ThreadIdle
    /\ TripIdle
    /\ ArdIdle
    /\ UpdIdle
    /\ FaultIdle
    /\ SaveIdle
    /\ \E la \in ReplyLines(<<"a">>, {<<"b">>}), lb \in ReplyLines(<<"b">>, {<<"a">>}),
          ta \in BOOLEAN, tb \in BOOLEAN :
          LET thread(in) == IF in THEN << <<"thread_id", ":", " ", "t">> >> ELSE <<>>
          IN  files = [f \in {<<"a">>, <<"b">>} |->
                          IF f = <<"a">> THEN DocText(la \o thread(ta), <<"x">>)
                          ELSE DocText(lb \o thread(tb), <<"x">>)]
    /\ \E fa \in Folders :
          folders = [f \in {<<"a">>, <<"b">>} |-> IF f = <<"a">> THEN fa ELSE <<>>]
    /\ dry_run \in BOOLEAN
    /\ run = 0
    /\ documents = <<>>
    /\ updated = {}

SpecReplies == InitLinkReplies /\ [][NextLink]_vars

\* A directory for cross-document-linking.py where a.md may have the folder
\* a/ that find_attachment_folder looks for and the directory a_attachments/
\* that email-to-markdown.py extracts the attachments of a.eml into.
InitLinkAttachments ==
    /\ pc = "link_start"
    /\ VoiceIdle
    /\ SummaryIdle
    /\ HookIdle
    /\ SaveIdle
    /\ GraphIdle
    /\ ThreadIdle
    /\ TripIdle
    /\ UpdIdle
    /\ FaultIdle
    /\ \E body \in Bodies(MaxBody) :
          files = [f \in {<<"a">>, <<"b">>} |->
                      IF f = <<"a">> THEN DocText(TitleLines(<<"s">>), body)
                      ELSE DocText(TitleLines(<<"s">>), <<"x">>)]
    /\ \E fa \in Folders :
          folders = [f \in {<<"a">>, <<"b">>} |-> IF f = <<"a">> THEN fa ELSE <<>>]
    /\ \E held \in SUBSET {AttachmentNames[k] : k \in 1..3} :
          attachment_dirs = [NoDirs EXCEPT ![<<"a">>] = held]
    /\ scan_order = <<>>
    /\ all_docs = <<>>
    /\ pending = <<>>
    /\ dry_run \in BOOLEAN
    /\ run = 0
    /\ documents = <<>>
    /\ updated = {}

\* A run of either writer on a directory with attachment directories.
InitAttachments == InitLinkAttachments \/ InitArd

SpecAttachments == InitAttachments /\ [][NextWriters]_vars

\* ----------------- email-thread-reconstruction.py: update_frontmatter

ThreadKeys == <<"thread_id", "thread_position", "thread_length">>

\* f'{key}: "{value}"' for a str and f'{key}: {value}' for an int (lines
\* 102-105 and 110-113); thread_id is a str, the other two are ints.
FieldLine(key, fields) ==
    CASE key = "thread_id"       -> <<key, ":", " ", "\"">> \o fields.thread_id \o <<"\"">>
      [] key = "thread_position" -> <<key, ":", " ", Digits[fields.thread_position + 1]>>
      [] OTHER                   -> <<key, ":", " ", Digits[fields.thread_length + 1]>>

\* The index of the first line that starts with prefix, 0 when there is none.
FirstLine(lines, prefix) ==
    LET hits == {k \in DOMAIN lines : StartsWith(lines[k], prefix)}
    IN  IF hits = {} THEN 0 ELSE CHOOSE k \in hits : \A h \in hits : k <= h

RECURSIVE SetFields(_, _, _, _)
\* The loop of lines 95-113 over the keys of new_fields: the first line of a
\* key is overwritten, a key without a line goes to new_lines.
SetFields(lines, new_lines, keys, fields) ==
    IF keys = <<>> THEN [lines |-> lines, new_lines |-> new_lines]
    ELSE LET key == Head(keys)
             i   == FirstLine(lines, <<key, ":">>)
         IN  IF i # 0
             THEN SetFields([lines EXCEPT ![i] = FieldLine(key, fields)], new_lines,
                            Tail(keys), fields)
             ELSE SetFields(lines, Append(new_lines, FieldLine(key, fields)),
                            Tail(keys), fields)

RECURSIVE ReadText(_)
\* f.read() of a file opened with open(md_file, 'r', encoding='utf-8') (lines
\* 69-70 and 31-32): the text mode of open() hands \r\n and \r over as \n.
\* Written back in text mode (line 123) a \n stays a \n.
ReadText(data) ==
    IF data = <<>> THEN <<>>
    ELSE IF Head(data) # "\r" THEN <<Head(data)>> \o ReadText(Tail(data))
    ELSE IF Len(data) >= 2 /\ data[2] = "\n" THEN <<"\n">> \o ReadText(Tail(Tail(data)))
    ELSE <<"\n">> \o ReadText(Tail(data))

\* update_frontmatter (lines 64-126) on the bytes of the file: what it
\* returns and the content the file has afterwards.
update_frontmatter(data, fields) ==
    LET content   == ReadText(data)
        end_match == Find(From(content, 4), <<"\n", "-", "-", "-", "\n">>, 0)
    IN  IF ~StartsWith(content, <<"-", "-", "-", "\n">>) \/ end_match = -1
        THEN [returns |-> FALSE, content |-> data]
        ELSE LET frontmatter_end == 4 + end_match + 5
                 lines      == Split(Slice(content, 4, 4 + end_match), <<"\n">>)
                 body       == From(content, frontmatter_end)
                 estimate   == FirstLine(lines, <<"tokens_estimate", ":">>)
                 insert_idx == IF estimate # 0 THEN estimate ELSE Len(lines)
                 set        == SetFields(lines, <<>>, ThreadKeys, fields)
                 all        == SubSeq(set.lines, 1, insert_idx) \o set.new_lines
                                  \o SubSeq(set.lines, insert_idx + 1, Len(set.lines))
             IN  [returns |-> TRUE,
                  content |-> <<"-", "-", "-", "\n">> \o Join(all, <<"\n">>)
                                 \o <<"\n", "-", "-", "-", "\n">> \o body]

\* parse_frontmatter (lines 26-61) returns a dict that is not empty: the
\* frontmatter has a line with a colon that does not start with two blanks.
HasMetadata(data) ==
    LET content   == ReadText(data)
        end_match == Find(From(content, 4), <<"\n", "-", "-", "-", "\n">>, 0)
    IN  /\ StartsWith(content, <<"-", "-", "-", "\n">>)
        /\ end_match # -1
        /\ \E line \in {Split(Slice(content, 4, 4 + end_match), <<"\n">>)[k] :
                           k \in DOMAIN Split(Slice(content, 4, 4 + end_match), <<"\n">>)} :
              Contains(line, <<":">>) /\ ~StartsWith(line, <<" ", " ">>)

\* The frontmatter lines of the updated documents: other fields, the thread
\* fields as an earlier run left them, and a nested line named like one.
UpdateLines ==
    { <<"title", ":", " ", "s">>,
      <<"tokens_estimate", ":", " ", "5">>,
      <<"thread_id", ":", " ", "\"", "o", "\"">>,
      <<"thread_position", ":", " ", "7">>,
      <<"thread_length", ":", " ", "9">>,
      <<" ", " ", "thread_id", ":", " ", "n">> }

\* A body, a body with a rule and a line that reads like a field, and a body
\* whose first line ends as the lines of a mail do, in \r\n.
UpdateBodies ==
    { <<"x">>,
      <<"x", "\n", "-", "-", "-", "\n", "thread_id", ":", " ", "b", "\n">>,
      <<"x", "\r", "\n", "y", "\n">> }

PlainDoc == Header(<< <<"title", ":", " ", "s">> >>) \o <<"x">>

InitUpdate ==
    /\ pc = "upd_start"
    /\ VoiceIdle
    /\ SummaryIdle
    /\ HookIdle
    /\ SaveIdle
    /\ GraphIdle
    /\ ThreadIdle
    /\ TripIdle
    /\ ArdIdle
    /\ \/ \E n \in 0..MaxLines :
            \E lines \in [1..n -> UpdateLines], body \in UpdateBodies :
               /\ files = [f \in {<<"a">>, <<"b">>} |->
                              IF f = <<"a">> THEN Header(lines) \o body ELSE <<"x">>]
               /\ update_order = << <<"a">>, <<"b">> >>
               /\ unwritable = {}
       \/ /\ files = [f \in {<<"a">>, <<"b">>} |-> PlainDoc]
          /\ update_order \in { << <<"a">>, <<"b">> >>, << <<"b">>, <<"a">> >> }
          /\ unwritable \in SUBSET {<<"a">>, <<"b">>}
    /\ new_fields \in [{<<"a">>, <<"b">>} ->
                          [thread_id : {<<"r">>}, thread_position : {0, 2}, thread_length : {3}]]
    /\ new_fields[<<"b">>].thread_position = 0
    /\ folders = <<>>
    /\ dry_run = FALSE
    /\ run = 0
    /\ documents = <<>>
    /\ updated = {}
    /\ update_todo = <<>>

\* reconstruct_threads up to its update loop (lines 271-293): the emails are
\* the files whose frontmatter gave metadata.
StartUpdates ==
    /\ pc \in {"upd_start", "upd_done"}
    /\ run < Runs
    /\ run' = run + 1
    /\ update_todo' = SelectSeq(update_order, LAMBDA f : HasMetadata(files[f]))
    /\ updated' = {}
    /\ pc' = "upd_loop"
    /\ UNCHANGED <<files, folders, dry_run, documents, new_fields, update_order>>
    /\ UNCHANGED <<graph_vars, thread_vars, trip_vars, ard_vars, fault_vars, save_vars, hook_vars, summary_vars, voice_vars>>

\* One turn of the loop of lines 294-302.  An error raised by open(md_file,
\* 'w') (line 123) is caught neither by update_frontmatter nor by
\* reconstruct_threads nor by main(): the run ends.
UpdateFrontmatter ==
    /\ pc = "upd_loop"
    /\ update_todo # <<>>
    /\ LET md_file == Head(update_todo)
           result  == update_frontmatter(files[md_file], new_fields[md_file])
       IN  IF result.returns /\ md_file \in unwritable
           THEN /\ pc' = "upd_aborted"
                /\ UNCHANGED <<files, updated, update_todo>>
           ELSE /\ files' = [files EXCEPT ![md_file] = result.content]
                /\ updated' = IF result.returns THEN updated \cup {md_file} ELSE updated
                /\ update_todo' = Tail(update_todo)
                /\ UNCHANGED pc
    /\ UNCHANGED <<folders, dry_run, run, documents, new_fields, update_order>>
    /\ UNCHANGED <<graph_vars, thread_vars, trip_vars, ard_vars, fault_vars, save_vars, hook_vars, summary_vars, voice_vars>>

\* generate_thread_index and the return (lines 304-314); the index file has
\* no frontmatter and is no email of a later run.
WriteIndex ==
    /\ pc = "upd_loop"
    /\ update_todo = <<>>
    /\ pc' = "upd_done"
    /\ UNCHANGED <<link_vars, upd_vars>>
    /\ UNCHANGED <<graph_vars, thread_vars, trip_vars, ard_vars, fault_vars, save_vars, hook_vars, summary_vars, voice_vars>>

NextUpdate == StartUpdates \/ UpdateFrontmatter \/ WriteIndex

SpecUpdate == InitUpdate /\ [][NextUpdate]_vars

\* -------------------------------------- the batch loops under write errors

\* A directory for cross-document-linking.py in which the write of some files
\* raises an error.
InitLinkFault ==
    /\ pc = "link_start"
    /\ VoiceIdle
    /\ SummaryIdle
    /\ HookIdle
    /\ SaveIdle
    /\ GraphIdle
    /\ ThreadIdle
    /\ TripIdle
    /\ ArdIdle
    /\ UpdIdle
    /\ \E ha \in Headers(<<"a">>, <<"b">>), hb \in Headers(<<"b">>, <<"a">>) :
          files = [f \in {<<"a">>, <<"b">>} |-> IF f = <<"a">> THEN ha \o <<"x">> ELSE hb \o <<"x">>]
    /\ folders = [f \in {<<"a">>, <<"b">>} |-> <<>>]
    /\ unwritable \in SUBSET {<<"a">>, <<"b">>}
    /\ dry_run \in BOOLEAN
    /\ run = 0
    /\ documents = <<>>
    /\ updated = {}

\* A batch run of cross-document-linking.py or of
\* email-thread-reconstruction.py.
InitBatch == InitLinkFault \/ InitUpdate

NextBatch == NextLink \/ NextUpdate

SpecBatch == InitBatch /\ [][NextBatch]_vars

\* ------------------------------- email-to-markdown.py: _save_attachment

\* The paths extract_attachments (lines 183-231) saves attachments under:
\* output_dir / filename, output_dir being <stem>_attachments (line 799).
SavePaths ==
    { <<"m1", "_attachments", "/", "f">>,
      <<"m1", "_attachments", "/", "g">>,
      <<"m2", "_attachments", "/", "f">> }

\* The payloads of the attachments.
Contents == { <<"A">>, <<"B">> }

\* compute_content_hash (lines 119-124): the SHA-256 hex digest of the data,
\* a string that differs for different data.
compute_content_hash(data) == <<"sha256", ":">> \o data

Absent == [kind |-> "absent", data |-> <<>>, target |-> <<>>]

RegularFile(data) == [kind |-> "file", data |-> data, target |-> <<>>]

Symlink(target) == [kind |-> "link", data |-> <<>>, target |-> target]

RECURSIVE Resolve(_, _)
\* The path a path stands for once its symlinks are followed.  A symlink is
\* only made at a path where nothing is, to a path that exists, so the
\* links have no cycle.
Resolve(d, path) ==
    IF d[path].kind = "link" THEN Resolve(d, d[path].target) ELSE path

\* os.path.exists(path) (line 159): follows symlinks, False for a broken one.
Exists(d, path) == d[Resolve(d, path)].kind = "file"

\* open(filepath, 'wb').write(data) (lines 168-169 and 173-174): the data
\* goes to the file the path stands for; through a broken symlink the file
\* it points to is created.
WriteData(d, filepath, data) == [d EXCEPT ![Resolve(d, filepath)] = RegularFile(data)]

\* What reading the path gives: the data of the file it stands for.
ReadData(d, path) == d[Resolve(d, path)].data

\* dedup_registry[content_hash] = str(filepath) (lines 170 and 176)
Register(reg, content_hash, filepath) == (content_hash :> filepath) @@ reg

\* _save_attachment (lines 148-180) with a registry that is not None: the
\* dict it returns, or that it raised, and the registry and the paths
\* afterwards.  os.symlink raises FileExistsError when anything is at
\* filepath, a broken symlink included; the fallback of lines 164-166 then
\* calls os.symlink on the same filepath and raises again, and nothing
\* catches that.
save_attachment(filepath, data, content_hash, dedup_registry, d) ==
    IF content_hash \in DOMAIN dedup_registry
    THEN LET original_path == dedup_registry[content_hash]
         IN  IF Exists(d, original_path)
             THEN IF d[filepath].kind # "absent"
                  THEN [raised |-> TRUE, dedup_info |-> {},
                        registry |-> dedup_registry, disk |-> d]
                  ELSE [raised |-> FALSE,
                        dedup_info |-> {<<"deduplicated_from", original_path>>},
                        registry |-> dedup_registry,
                        disk |-> [d EXCEPT ![filepath] = Symlink(original_path)]]
             ELSE [raised |-> FALSE, dedup_info |-> {},
                   registry |-> Register(dedup_registry, content_hash, filepath),
                   disk |-> WriteData(d, filepath, data)]
    ELSE [raised |-> FALSE, dedup_info |-> {},
          registry |-> Register(dedup_registry, content_hash, filepath),
          disk |-> WriteData(d, filepath, data)]

NoSave == [filepath |-> <<>>, data |-> <<>>, raised |-> FALSE, dedup_info |-> {}]

\* An empty attachments tree and the registry load_dedup_registry (lines
\* 127-137) returns when there is no registry file yet.
InitSave ==
    /\ pc = "save"
    /\ VoiceIdle
    /\ SummaryIdle
    /\ HookIdle
    /\ GraphIdle
    /\ ThreadIdle
    /\ LinkIdle
    /\ TripIdle
    /\ ArdIdle
    /\ FaultIdle
    /\ UpdIdle
    /\ registry = <<>>
    /\ disk = [path \in SavePaths |-> Absent]
    /\ last_save = NoSave
    /\ saves = 0

\* One call of _save_attachment by extract_attachments (lines 196 and 214)
\* with the registry main() hands to every conversion (lines 926-928, 949
\* and 985).  In a batch a raised error ends the conversion of that email
\* only (lines 951-952), and the registry is used on.
SaveAttachment ==
    /\ pc = "save"
    /\ saves < MaxSaves
    /\ \E filepath \in SavePaths, data \in Contents :
          \E result \in {save_attachment(filepath, data, compute_content_hash(data),
                                          registry, disk)} :
             /\ registry' = result.registry
             /\ disk' = result.disk
             /\ last_save' = [filepath |-> filepath, data |-> data,
                              raised |-> result.raised, dedup_info |-> result.dedup_info]
    /\ saves' = saves + 1
    /\ UNCHANGED <<pc, graph_vars, thread_vars, link_vars, trip_vars, ard_vars, fault_vars, upd_vars, hook_vars, summary_vars, voice_vars>>

\* Between two calls somebody removes a saved attachment or a symlink: the
\* case of lines 167-170, "original no longer exists".
RemoveFile ==
    /\ pc = "save"
    /\ \E path \in SavePaths :
          /\ disk[path].kind # "absent"
          /\ disk' = [disk EXCEPT ![path] = Absent]
    /\ UNCHANGED <<registry, last_save, saves>>
    /\ UNCHANGED <<pc, graph_vars, thread_vars, link_vars, trip_vars, ard_vars, fault_vars, upd_vars, hook_vars, summary_vars, voice_vars>>

NextSave == SaveAttachment \/ RemoveFile

SpecSave == InitSave /\ [][NextSave]_vars

\* ------------------- parse_frontmatter and serialize_frontmatter in sequence

\* The lines a frontmatter text is made of: scalar fields, an inline list, an
\* empty inline list, keys with an empty value and block list items.
FrontmatterLines ==
    { <<"k", ":", " ", "v">>,
      <<"k", ":", " ", "[", "x", ",", " ", "y", "]">>,
      <<"k", ":", " ", "[", "]">>,
      <<"k", ":">>,
      <<"j", ":", " ", "w">>,
      <<"j", ":">>,
      <<" ", " ", "-", " ", "x">>,
      <<" ", " ", "-", " ", "y">> }

FrontmatterTexts ==
    {Join(lines, <<"\n">>) : lines \in UNION {[1..n -> FrontmatterLines] : n \in 0..MaxLines}}

\* f"---\n{new_fm}\n---\n\n" (line 362): a frontmatter text in its fences.
Fenced(fm_text) ==
    <<"-", "-", "-", "\n">> \o fm_text \o <<"\n", "-", "-", "-", "\n", "\n">>

InitTrip ==
    /\ pc = "fm_text"
    /\ VoiceIdle
    /\ SummaryIdle
    /\ HookIdle
    /\ SaveIdle
    /\ UpdIdle
    /\ FaultIdle
    /\ ArdIdle
    /\ GraphIdle
    /\ ThreadIdle
    /\ LinkIdle
    /\ \E text \in FrontmatterTexts :
          round_trip = [content |-> Fenced(text), fm_dict |-> <<>>,
                        new_fm |-> <<>>, again |-> <<>>]

ParseFirst ==
    /\ pc = "fm_text"
    /\ round_trip' = [round_trip EXCEPT !.fm_dict = parse_frontmatter(round_trip.content).fm_dict]
    /\ pc' = "fm_parsed"
    /\ UNCHANGED <<graph_vars, thread_vars, link_vars, ard_vars, fault_vars, upd_vars, save_vars, hook_vars, summary_vars, voice_vars>>

Serialize ==
    /\ pc = "fm_parsed"
    /\ round_trip' = [round_trip EXCEPT !.new_fm = serialize_frontmatter(round_trip.fm_dict)]
    /\ pc' = "fm_serialized"
    /\ UNCHANGED <<graph_vars, thread_vars, link_vars, ard_vars, fault_vars, upd_vars, save_vars, hook_vars, summary_vars, voice_vars>>

ParseAgain ==
    /\ pc = "fm_serialized"
    /\ round_trip' = [round_trip EXCEPT !.again = parse_frontmatter(Fenced(round_trip.new_fm)).fm_dict]
    /\ pc' = "fm_reparsed"
    /\ UNCHANGED <<graph_vars, thread_vars, link_vars, ard_vars, fault_vars, upd_vars, save_vars, hook_vars, summary_vars, voice_vars>>

NextTrip == ParseFirst \/ Serialize \/ ParseAgain

SpecTrip == InitTrip /\ [][NextTrip]_vars

\* ------------------------------------- hooks/git_safety_guard.py (lines 24-208)

\* A command line is the sequence of its words; \s+ of a pattern is the gap
\* between two words.  A pattern is a sequence of elements: "tok" takes one
\* word of a class, "many" any number of words of a class, "norest" is the
\* look-ahead that no later word is of a class.  A class holds the words of
\* the modelled commands that the piece of the regular expression matches;
\* re.search finds a pattern at any place, so a piece at the start matches
\* the end of a word and a piece at the end matches the start of one.

\* The words of the modelled command lines.
Words ==
    {"git", "/usr/bin/git", "rm", "/bin/rm", "echo", "status", "checkout",
     "restore", "reset", "clean", "push", "branch", "stash", "drop", "clear",
     "origin", "x", "--", "-b", "--orphan", "--staged", "-S", "--worktree",
     "-W", "--hard", "--merge", "-fd", "-fdn", "--dry-run", "--force",
     "--force-with-lease", "-f", "-r", "-D", "-rf", "--recursive",
     "/tmp/x", "/var/tmp/x", "$TMPDIR/x", "/home/x", "build", "&&", ";"}

Tok(class) == [kind |-> "tok", in |-> class]

Many(class) == [kind |-> "many", in |-> class]

NoRest(class) == [kind |-> "norest", in |-> class]

\* git and rm, also as the end of an absolute path
Git == Tok({"git", "/usr/bin/git"})

Rm == Tok({"rm", "/bin/rm"})

\* \s+ at the end of a pattern: one more word follows
Space == Tok(Words)

\* .*
Gap == Many(Words)

\* (-[a-zA-Z]+\s+)*
Flags == Many({"-b", "-S", "-W", "-fd", "-fdn", "-f", "-r", "-D", "-rf"})

\* -[a-zA-Z]*[rR][a-zA-Z]*f or -[a-zA-Z]*f[a-zA-Z]*[rR]
RecursiveForce == Tok({"-rf"})

\* a word that begins with / or ~
RootPath == Tok({"/usr/bin/git", "/bin/rm", "/tmp/x", "/var/tmp/x", "/home/x"})

\* a word that begins with /tmp/, /var/tmp/, $TMPDIR/ or ${TMPDIR
TempPath == Tok({"/tmp/x", "/var/tmp/x", "$TMPDIR/x"})

\* a word that begins with /tmp/ or /var/tmp/
TmpPath == Tok({"/tmp/x", "/var/tmp/x"})

\* DESTRUCTIVE_PATTERNS (lines 24-111), each with the head of its reason; a
\* pattern with | is given as its alternatives, one after the other.
DESTRUCTIVE_PATTERNS ==
    << [pattern |-> <<Git, Tok({"checkout"}), Tok({"--"}), Space>>,
        reason |-> "git checkout --"],
       [pattern |-> <<Git, Tok({"checkout"}), Tok(Words \ {"-b", "--orphan"}),
                      Tok({"--"}), Space>>,
        reason |-> "git checkout <ref> --"],
       [pattern |-> <<Git, Tok({"restore"}), Tok(Words \ {"--staged", "-S"})>>,
        reason |-> "git restore"],
       [pattern |-> <<Git, Tok({"restore"}), Gap, Tok({"--worktree", "-W"})>>,
        reason |-> "git restore --worktree"],
       [pattern |-> <<Git, Tok({"reset"}), Tok({"--hard"})>>,
        reason |-> "git reset --hard"],
       [pattern |-> <<Git, Tok({"reset"}), Tok({"--merge"})>>,
        reason |-> "git reset --merge"],
       [pattern |-> <<Git, Tok({"clean"}), Tok({"-fd", "-fdn", "-f"})>>,
        reason |-> "git clean -f"],
       [pattern |-> <<Git, Tok({"push"}), Gap, Tok({"--force"})>>,
        reason |-> "Force push"],
       [pattern |-> <<Git, Tok({"push"}), Gap, Tok({"-f"})>>,
        reason |-> "Force push (-f)"],
       [pattern |-> <<Git, Tok({"branch"}), Tok({"-D"})>>,
        reason |-> "git branch -D"],
       [pattern |-> <<Rm, RecursiveForce, RootPath>>,
        reason |-> "rm -rf on root or home paths"],
       [pattern |-> <<Rm, RecursiveForce>>,
        reason |-> "rm -rf"],
       [pattern |-> <<Rm, Flags, Tok({"-r"}), Flags, Tok({"-f", "-fd", "-fdn"})>>,
        reason |-> "rm with separate -r -f flags"],
       [pattern |-> <<Rm, Flags, Tok({"-f"}), Flags, Tok({"-r", "-rf"})>>,
        reason |-> "rm with separate -r -f flags"],
       [pattern |-> <<Rm, Gap, Tok({"--recursive"}), Gap,
                      Tok({"--force", "--force-with-lease"})>>,
        reason |-> "rm --recursive --force"],
       [pattern |-> <<Rm, Gap, Tok({"--force", "--force-with-lease"}), Gap,
                      Tok({"--recursive"})>>,
        reason |-> "rm --recursive --force"],
       [pattern |-> <<Git, Tok({"stash"}), Tok({"drop"})>>,
        reason |-> "git stash drop"],
       [pattern |-> <<Git, Tok({"stash"}), Tok({"clear"})>>,
        reason |-> "git stash clear"] >>

\* SAFE_PATTERNS (lines 114-144); the rm lines that differ only in the
\* directory are given once, with the class of the directories.
SAFE_PATTERNS ==
    << <<Git, Tok({"checkout"}), Tok({"-b"}), Space>>,
       <<Git, Tok({"checkout"}), Tok({"--orphan"}), Space>>,
       <<Git, Tok({"restore"}), Tok({"--staged"}), NoRest({"--worktree", "-W"})>>,
       <<Git, Tok({"restore"}), Tok({"-S"}), NoRest({"--worktree", "-W"})>>,
       <<Git, Tok({"clean"}), Tok({"-fdn"})>>,
       <<Git, Tok({"clean"}), Tok({"--dry-run"})>>,
       <<Rm, RecursiveForce, TempPath>>,
       <<Rm, Flags, Tok({"-r"}), Flags, Tok({"-f"}), TmpPath>>,
       <<Rm, Flags, Tok({"-f"}), Flags, Tok({"-r"}), TmpPath>>,
       <<Rm, Gap, Tok({"--recursive"}), Gap, Tok({"--force"}), TmpPath>>,
       <<Rm, Gap, Tok({"--force"}), Gap, Tok({"--recursive"}), TmpPath>> >>

RECURSIVE MatchAt(_, _, _)
\* The pattern matches the words of cmd from word k on.
MatchAt(pattern, cmd, k) ==
    IF pattern = <<>> THEN TRUE
    ELSE LET e == Head(pattern)
         IN  CASE e.kind = "tok" ->
                    /\ k <= Len(cmd)
                    /\ cmd[k] \in e.in
                    /\ MatchAt(Tail(pattern), cmd, k + 1)
               [] e.kind = "many" ->
                    \E j \in k..(Len(cmd) + 1) :
                        /\ \A i \in k..(j - 1) : cmd[i] \in e.in
                        /\ MatchAt(Tail(pattern), cmd, j)
               [] e.kind = "norest" ->
                    /\ k <= Len(cmd)
                    /\ \A i \in k..Len(cmd) : cmd[i] \notin e.in
                    /\ MatchAt(Tail(pattern), cmd, k)

\* re.search(pattern, command)
Search(pattern, cmd) == \E k \in 1..Len(cmd) : MatchAt(pattern, cmd, k)

\* _normalize_absolute_paths (lines 147-162): an absolute path to rm or git
\* at the very start of the command becomes the bare name.
normalize_absolute_paths(cmd) ==
    IF cmd = <<>> THEN cmd
    ELSE IF Head(cmd) = "/bin/rm" THEN <<"rm">> \o Tail(cmd)
    ELSE IF Head(cmd) = "/usr/bin/git" THEN <<"git">> \o Tail(cmd)
    ELSE cmd

\* Lines 183-185: some allowlist pattern is found in the command.
IsSafe(cmd) == \E p \in DOMAIN SAFE_PATTERNS : Search(SAFE_PATTERNS[p], cmd)

\* Lines 188-189: the destructive patterns found in the command.
Found(cmd) ==
    {p \in DOMAIN DESTRUCTIVE_PATTERNS : Search(DESTRUCTIVE_PATTERNS[p].pattern, cmd)}

\* Lines 190-204: the JSON printed for the first destructive pattern found.
Deny(cmd, original_command) ==
    LET first == CHOOSE p \in Found(cmd) : \A q \in Found(cmd) : p <= q
    IN  [permissionDecision |-> "deny",
         reason |-> DESTRUCTIVE_PATTERNS[first].reason,
         command |-> original_command]

\* main() (lines 165-208) on a JSON object: what is printed.
HookOutput(tool_name, original_command) ==
    LET command == normalize_absolute_paths(original_command)
    IN  IF tool_name # "Bash" \/ original_command = <<>> THEN <<>>
        ELSE IF IsSafe(command) THEN <<>>
        ELSE IF Found(command) # {} THEN <<Deny(command, original_command)>>
        ELSE <<>>

\* Largest number of simple commands chained in one command line.
MaxChain == 2

\* The simple commands the modelled command lines are made of.
SimpleCommands ==
    {<<"git", "status">>,
     <<"echo", "x">>,
     <<"git", "checkout", "-b", "x">>,
     <<"git", "checkout", "--", "x">>,
     <<"git", "checkout", "x", "--", "x">>,
     <<"git", "restore", "x">>,
     <<"git", "restore", "--staged", "x">>,
     <<"git", "restore", "--staged", "--worktree", "x">>,
     <<"git", "reset", "--hard">>,
     <<"git", "clean", "-fd">>,
     <<"git", "clean", "-fdn">>,
     <<"git", "push", "origin", "--force">>,
     <<"git", "push", "origin", "--force-with-lease">>,
     <<"git", "branch", "-D", "x">>,
     <<"git", "stash", "drop">>,
     <<"/usr/bin/git", "reset", "--hard">>,
     <<"rm", "-rf", "build">>,
     <<"rm", "-rf", "/home/x">>,
     <<"rm", "-rf", "/tmp/x">>,
     <<"rm", "-rf", "$TMPDIR/x">>,
     <<"rm", "-r", "-f", "build">>,
     <<"rm", "-r", "-f", "/tmp/x">>,
     <<"rm", "--recursive", "--force", "build">>,
     <<"/bin/rm", "-rf", "/home/x">>}

\* The shell operators that chain two commands.
Separators == {"&&", ";"}

RECURSIVE Chains(_)
\* The command lines of n simple commands.
Chains(n) ==
    IF n = 1 THEN SimpleCommands
    ELSE {c \o <<s>> \o t : c \in Chains(n - 1), s \in Separators, t \in SimpleCommands}

CommandLines == UNION {Chains(n) : n \in 1..MaxChain}

\* What the hook finds on standard input: text that is no JSON, JSON that is
\* no object, or an object with tool_name and tool_input.command.
HookInputs ==
    {[json |-> "invalid", tool_name |-> "", command |-> <<>>],
     [json |-> "array", tool_name |-> "", command |-> <<>>]}
    \cup [json : {"object"}, tool_name : {"Bash", "Write"},
          command : CommandLines \cup {<<>>}]

InitHook ==
    /\ pc = "hook_start"
    /\ VoiceIdle
    /\ SummaryIdle
    /\ GraphIdle
    /\ ThreadIdle
    /\ LinkIdle
    /\ TripIdle
    /\ ArdIdle
    /\ FaultIdle
    /\ UpdIdle
    /\ SaveIdle
    /\ stdin \in HookInputs
    /\ stdout = <<>>
    /\ exit_code = 0

\* main(): json.load fails and the hook exits 0 (lines 167-170); the JSON is
\* no object and input_data.get raises AttributeError, which ends the
\* interpreter with status 1 (line 172); or the command is checked.
Main ==
    /\ pc = "hook_start"
    /\ pc' = "hook_done"
    /\ stdout' = IF stdin.json = "object"
                 THEN HookOutput(stdin.tool_name, stdin.command)
                 ELSE <<>>
    /\ exit_code' = IF stdin.json = "array" THEN 1 ELSE 0
    /\ UNCHANGED <<stdin, graph_vars, thread_vars, link_vars, trip_vars, ard_vars, fault_vars, upd_vars, save_vars, summary_vars, voice_vars>>

NextHook == Main

SpecHook == InitHook /\ [][NextHook]_vars

\* ------------------------------------------------ email-summary.py (lines 31-626)

\* A text is the sequence of its pieces: the words w (lower case), S (upper
\* case), L (a word of the language model) and hi (a greeting), w20 (twenty
\* times the word w, with one blank between them), the full stop, the blank
\* and the newline, the markdown markers # and *, the signature delimiter --,
\* the double quote, and in a file the frontmatter delimiter --- and the keys
\* title: and description:.

\* WORD_COUNT_THRESHOLD
WordCountThreshold == 100

\* len() of a piece
PieceLen(t) ==
    CASE t \in {"hi", "--", "\\\""} -> 2
      [] t = "---" -> 3
      [] t = "title:" -> 6
      [] t = "description:" -> 12
      [] t = "w20" -> 39
      [] OTHER -> 1

RECURSIVE CharLen(_)
\* len(text)
CharLen(s) == IF s = <<>> THEN 0 ELSE PieceLen(Head(s)) + CharLen(Tail(s))

RECURSIVE TakeChars(_, _)
\* text[:n]
TakeChars(s, n) ==
    IF s = <<>> \/ PieceLen(Head(s)) > n THEN <<>>
    ELSE <<Head(s)>> \o TakeChars(Tail(s), n - PieceLen(Head(s)))

RECURSIVE LeadingRun(_, _)
\* The number of pieces at the start of s that are in class.
LeadingRun(s, class) ==
    IF s = <<>> \/ Head(s) \notin class THEN 0 ELSE 1 + LeadingRun(Tail(s), class)

Whitespace == {" ", "\n"}

\* \w
IsWordPiece(t) == t \in {"w", "S", "L", "hi", "w20"}

\* extract_frontmatter (lines 57-71)
extract_frontmatter(content) ==
    LET end == IF content # <<>> /\ Head(content) = "---"
               THEN Find(content, <<"\n", "---">>, 1) ELSE -1
    IN  IF end = -1
        THEN [opener |-> <<>>, fm_content |-> <<>>, body |-> content]
        ELSE [opener |-> <<"---", "\n">>,
              fm_content |-> Slice(content, 2, end),
              body |-> From(content, end + 2)]

\* extract_body (lines 48-54)
extract_body(content) ==
    LET end == IF content # <<>> /\ Head(content) = "---"
               THEN Find(content, <<"\n", "---">>, 1) ELSE -1
    IN  IF end = -1 THEN Strip(content) ELSE Strip(From(content, end + 2))

RECURSIVE StripHeadings(_, _)
\* re.sub(r'^#{1,6}\s+', '', text, flags=re.MULTILINE); at_start says that s
\* begins at the start of a line.
StripHeadings(s, at_start) ==
    IF s = <<>> THEN <<>>
    ELSE LET n == LeadingRun(s, {"#"})
             rest == SubSeq(s, n + 1, Len(s))
             m == LeadingRun(rest, Whitespace)
         IN  IF at_start /\ n >= 1 /\ n <= 6 /\ m >= 1
             THEN StripHeadings(SubSeq(rest, m + 1, Len(rest)), rest[m] = "\n")
             ELSE <<Head(s)>> \o StripHeadings(Tail(s), Head(s) = "\n")

RECURSIVE StripRules(_, _)
\* re.sub(r'^[-*_]{3,}\s*$', '', text, flags=re.MULTILINE): a --- at the
\* start of a line goes, with the longest whitespace after it that ends at
\* the end of a line.
StripRules(s, at_start) ==
    IF s = <<>> THEN <<>>
    ELSE LET rest == Tail(s)
             m == LeadingRun(rest, Whitespace)
             ends == {j \in 0..m : j = Len(rest) \/ rest[j + 1] = "\n"}
             j == CHOOSE j \in ends : \A i \in ends : i <= j
         IN  IF at_start /\ Head(s) = "---" /\ ends # {}
             THEN StripRules(SubSeq(rest, j + 1, Len(rest)), j > 0 /\ rest[j] = "\n")
             ELSE <<Head(s)>> \o StripRules(Tail(s), Head(s) = "\n")

RECURSIVE CollapseNewlines(_)
\* re.sub(r'\n{3,}', '\n\n', text)
CollapseNewlines(s) ==
    IF s = <<>> THEN <<>>
    ELSE LET n == LeadingRun(s, {"\n"})
         IN  IF n >= 3 THEN <<"\n", "\n">> \o CollapseNewlines(SubSeq(s, n + 1, Len(s)))
             ELSE <<Head(s)>> \o CollapseNewlines(Tail(s))

\* _strip_markdown (lines 78-102): of its substitutions the emphasis markers,
\* the heading markers, the horizontal rules and the runs of newlines occur
\* in the modelled texts.
strip_markdown(text) ==
    LET NoEmphasis(t) == t # "*"
    IN  Strip(CollapseNewlines(StripRules(
            StripHeadings(SelectSeq(text, NoEmphasis), TRUE), TRUE)))

\* re.search(r'\n--\s*\n', text): the 0-based start of the first match, or -1.
SignatureStart(text) ==
    LET hits == {k \in 0..(Len(text) - 3) :
                    /\ text[k + 1] = "\n"
                    /\ text[k + 2] = "--"
                    /\ \E j \in 1..LeadingRun(SubSeq(text, k + 3, Len(text)), Whitespace) :
                          text[k + 2 + j] = "\n"}
    IN  IF hits = {} THEN -1 ELSE CHOOSE k \in hits : \A h \in hits : k <= h

\* _strip_signature (lines 105-137): of sig_patterns the standard delimiter
\* can match the modelled texts.
strip_signature(text) ==
    LET k == SignatureStart(text)
        before == Strip(SubSeq(text, 1, k))
        start == CharLen(SubSeq(text, 1, k))
    IN  IF /\ k # -1
           /\ CharLen(before) >= 20
           /\ (CharLen(text) < 500 \/ 5 * start > CharLen(text))
        THEN before
        ELSE text

RECURSIVE CollapseSpaces(_)
\* re.sub(r'\s+', ' ', text)
CollapseSpaces(s) ==
    IF s = <<>> THEN <<>>
    ELSE LET n == LeadingRun(s, Whitespace)
         IN  IF n >= 1 THEN <<" ">> \o CollapseSpaces(SubSeq(s, n + 1, Len(s)))
             ELSE <<Head(s)>> \o CollapseSpaces(Tail(s))

\* _clean_for_description (lines 140-144)
clean_for_description(text) == Strip(CollapseSpaces(text))

RECURSIVE InnerWords(_)
\* The words that begin inside the pieces of a text.
InnerWords(s) ==
    IF s = <<>> THEN 0
    ELSE (IF Head(s) = "w20" THEN 19 ELSE 0) + InnerWords(Tail(s))

\* _word_count (lines 147-151): len(text.split())
word_count(text) ==
    Cardinality({k \in DOMAIN text :
        text[k] \notin Whitespace /\ (k = 1 \/ text[k - 1] \in Whitespace)})
    + InnerWords(text)

\* The greeting test of lines 175-177.
IsGreeting(stripped) ==
    Head(stripped) = "hi" /\ (Len(stripped) = 1 \/ ~IsWordPiece(stripped[2]))

RECURSIVE MeaningfulLines(_)
\* The loop of lines 170-186 over the lines still to come.
MeaningfulLines(lines) ==
    IF lines = <<>> THEN <<>>
    ELSE LET stripped == Strip(Head(lines))
         IN  IF stripped = <<>> \/ IsGreeting(stripped)
             THEN MeaningfulLines(Tail(lines))
             ELSE IF Head(stripped) = "--" THEN <<>>
             ELSE <<stripped>> \o MeaningfulLines(Tail(lines))

\* The end of the first match of sentence_end (lines 192-196) at or after
\* start, or -1: a full stop, whitespace and then an upper-case word.
SentenceEnd(s, start) ==
    LET Run(k) == LeadingRun(SubSeq(s, k + 1, Len(s)), Whitespace)
        hits == {k \in (start + 1)..Len(s) :
                    /\ s[k] = "."
                    /\ Run(k) >= 1
                    /\ k + Run(k) + 1 <= Len(s)
                    /\ s[k + Run(k) + 1] = "S"}
    IN  IF hits = {} THEN -1
        ELSE LET k == CHOOSE k \in hits : \A h \in hits : k <= h IN k + Run(k)

RECURSIVE Sentences(_, _, _, _)
\* Lines 198-213: result_sentences, acc being those found before start.
Sentences(s, start, acc, max_sentences) ==
    LET end == SentenceEnd(s, start)
    IN  IF end = -1
        THEN IF Len(acc) < max_sentences /\ Strip(From(s, start)) # <<>>
             THEN Append(acc, Strip(From(s, start)))
             ELSE acc
        ELSE LET sentence == Strip(Slice(s, start, end))
                 found == IF sentence # <<>> THEN Append(acc, sentence) ELSE acc
             IN  IF Len(found) >= max_sentences THEN found
                 ELSE Sentences(s, end, found, max_sentences)

\* _extract_first_sentences (lines 159-222) on a text shorter than
\* MAX_DESCRIPTION_LEN, which is never truncated.
extract_first_sentences(text, max_sentences) ==
    LET text_block == Join(MeaningfulLines(Split(text, <<"\n">>)), <<" ">>)
    IN  Join(Sentences(text_block, 0, <<>>, max_sentences), <<" ">>)

\* summarise_heuristic (lines 225-248)
summarise_heuristic(body) ==
    IF body = <<>> THEN <<>>
    ELSE LET cleaned == strip_markdown(strip_signature(body))
         IN  IF cleaned = <<>> THEN <<>>
             ELSE clean_for_description(extract_first_sentences(cleaned, 2))

RECURSIVE StripQuotes(_)
\* text.strip('"')
StripQuotes(s) ==
    IF s # <<>> /\ Head(s) = "\"" THEN StripQuotes(Tail(s))
    ELSE IF s # <<>> /\ s[Len(s)] = "\"" THEN StripQuotes(SubSeq(s, 1, Len(s) - 1))
    ELSE s

\* _parse_summary_response (lines 311-353) on a response shorter than
\* MAX_DESCRIPTION_LEN without preamble or code block.
parse_summary_response(response) ==
    LET text == Strip(response)
        unquoted == IF text # <<>> /\ Head(text) = "\"" /\ text[Len(text)] = "\""
                    THEN SubSeq(text, 2, Len(text) - 1) ELSE text
    IN  Strip(CollapseSpaces(StripQuotes(unquoted)))

\* What a call of the ollama binary comes to: subprocess.run raises, the
\* binary exits with a status other than 0, or it exits with 0.
RunOutcomes == {"FileNotFoundError", "TimeoutExpired", "failed", "ok"}

\* The listing of `ollama list` when it exits with 0: the header alone, or
\* the header and a model.
Listings == {"header", "model"}

\* What `ollama run` prints when it exits with 0.
Responses == {<<>>, <<"\"", "\"", "\n">>, <<"\"", "L", " ", " ", "L", "\"", "\n">>}

\* The outcome of the `ollama list` of _check_ollama, of that of
\* _get_ollama_model with its listing, and of `ollama run` with its output.
Environments ==
    {e \in [check : RunOutcomes, list : RunOutcomes \ {"TimeoutExpired"},
            listing : Listings, run : RunOutcomes, response : Responses] :
        /\ e.list # "ok" => e.listing = "header"
        /\ e.run # "ok" => e.response = <<>>}

\* The environments of the calls that work on a file: no ollama binary, one
\* that answers, one that answers with nothing.
FewEnvironments ==
    {e \in Environments :
        \/ e.check = "FileNotFoundError" /\ e.list = "FileNotFoundError"
              /\ e.run = "FileNotFoundError"
        \/ e.check = "ok" /\ e.listing = "model" /\ e.run = "ok"
              /\ Len(e.response) # 3}

\* _check_ollama (lines 272-281)
check_ollama(env) == env.check = "ok"

\* _get_ollama_model (lines 284-308): a model name, or None (here <<>>).
get_ollama_model(env) ==
    IF env.list = "ok" /\ env.listing = "model" THEN <<"model">> ELSE <<>>

\* summarise_ollama (lines 360-400): the summary and the number of calls of
\* the ollama binary it made.
summarise_ollama(body, env) ==
    IF get_ollama_model(env) = <<>> THEN [summary |-> <<>>, calls |-> 1]
    ELSE IF strip_markdown(strip_signature(body)) = <<>>
    THEN [summary |-> <<>>, calls |-> 1]
    ELSE IF env.run # "ok" THEN [summary |-> <<>>, calls |-> 2]
    ELSE [summary |-> parse_summary_response(env.response), calls |-> 2]

\* The return statement of generate_summary that hands summarise_heuristic
\* on, after n calls of the ollama binary.
Heuristic(body, n) ==
    [summary |-> summarise_heuristic(body), by |-> "heuristic", calls |-> n]

\* generate_summary without the fall-back to summarise_heuristic of lines
\* 427-428 and 444-446: what the language model gave is handed on as it is.
generate_summary_no_fallback(body, method, env) ==
    LET llm == summarise_ollama(body, env)
    IN  IF body = <<>> \/ Strip(body) = <<>>
        THEN [summary |-> <<>>, by |-> "none", calls |-> 0]
        ELSE IF method = "heuristic" THEN Heuristic(body, 0)
        ELSE IF method = "ollama"
        THEN [summary |-> llm.summary, by |-> "ollama", calls |-> llm.calls]
        ELSE IF word_count(strip_markdown(body)) <= WordCountThreshold
        THEN Heuristic(body, 0)
        ELSE IF check_ollama(env)
        THEN [summary |-> llm.summary, by |-> "ollama", calls |-> 1 + llm.calls]
        ELSE [summary |-> <<>>, by |-> "none", calls |-> 1]

\* generate_summary (lines 407-446): the summary, the summariser whose
\* result the return statement taken hands on, and the number of calls of the
\* ollama binary.
generate_summary(body, method, env) ==
    LET llm == summarise_ollama(body, env)
    IN  IF body = <<>> \/ Strip(body) = <<>>
        THEN [summary |-> <<>>, by |-> "none", calls |-> 0]
        ELSE IF method = "heuristic" THEN Heuristic(body, 0)
        ELSE IF method = "ollama"
        THEN IF llm.summary # <<>>
             THEN [summary |-> llm.summary, by |-> "ollama", calls |-> llm.calls]
             ELSE Heuristic(body, llm.calls)
        ELSE IF word_count(strip_markdown(body)) <= WordCountThreshold
        THEN Heuristic(body, 0)
        ELSE IF check_ollama(env)
        THEN IF llm.summary # <<>>
             THEN [summary |-> llm.summary, by |-> "ollama", calls |-> 1 + llm.calls]
             ELSE Heuristic(body, 1 + llm.calls)
        ELSE Heuristic(body, 1)

\* _yaml_escape (lines 453-466)
yaml_escape(value) ==
    LET special == {"--", "---", "#", "*", "\"", "\n", "title:", "description:"}
        Escaped(t) == IF t = "\"" THEN "\\\"" ELSE IF t = "\n" THEN " " ELSE t
    IN  IF value = <<>> THEN <<"\"", "\"">>
        ELSE IF (\E k \in DOMAIN value : value[k] \in special) \/ Head(value) = " "
        THEN <<"\"">> \o [k \in DOMAIN value |-> Escaped(value[k])] \o <<"\"">>
        ELSE value

\* Lines 487-507 of update_description: new_fm_lines.
NewFmLines(fm_lines, summary) ==
    LET line == <<"description:", " ">> \o yaml_escape(summary)
        IsDescription(l) == l # <<>> /\ Head(l) = "description:"
        IsTitle(l) == l # <<>> /\ Head(l) = "title:"
        titles == {i \in DOMAIN fm_lines : IsTitle(fm_lines[i])}
        insert_idx == IF titles = {} THEN 0
                      ELSE CHOOSE i \in titles : \A j \in titles : i <= j
    IN  IF \E i \in DOMAIN fm_lines : IsDescription(fm_lines[i])
        THEN [i \in DOMAIN fm_lines |->
                 IF IsDescription(fm_lines[i]) THEN line ELSE fm_lines[i]]
        ELSE SubSeq(fm_lines, 1, insert_idx) \o <<line>>
             \o SubSeq(fm_lines, insert_idx + 1, Len(fm_lines))

\* update_description (lines 469-516) on the bytes of the file: what it
\* returns and the bytes the file has afterwards.  read_text hands \r\n and
\* \r over as \n.
update_description(data, method, env) ==
    LET content == ReadText(data)
        fm == extract_frontmatter(content)
        generated == generate_summary(extract_body(content), method, env)
        new_fm == Join(NewFmLines(Split(fm.fm_content, <<"\n">>), generated.summary),
                       <<"\n">>)
    IN  IF fm.opener = <<>> \/ generated.summary = <<>>
        THEN [returns |-> FALSE, content |-> data]
        ELSE [returns |-> TRUE,
              content |-> <<"---", "\n">> \o new_fm \o <<"\n", "---">> \o fm.body]

\* --method
Methods == {"auto", "heuristic", "ollama"}

\* WORD_COUNT_THRESHOLD words.
HundredWords == <<"w20", " ", "w20", " ", "w20", " ", "w20", " ", "w20">>

\* A body of more than WORD_COUNT_THRESHOLD words.
LongBody(start) == start \o HundredWords \o <<" ", "w">>

\* The bodies handed to generate_summary; None is falsy as the empty string
\* is and is given as it.
SummaryBodies ==
    {<<>>, <<" ", "\n">>, <<"*">>, <<"hi">>, <<"w">>,
     <<"hi", " ", "S", "\n", "\n", "w", " ", "w", ".", " ", "S", ".", " ", "S", ".">>,
     <<"#", " ", "S", "\n", "\n", "\n", "w", ".", "\n", "--", "\n", "S">>,
     <<"w", "\n", "--", " ", "\n", "S">>,
     HundredWords,
     LongBody(<<>>),
     LongBody(<<"*">>),
     LongBody(<<"hi", "\n", "S", " ">>) \o <<".", " ", "S", "\n", "--", "\n", "w">>,
     LongBody(<<"hi", " ">>)}

\* The frontmatter lines of the modelled files.
SummaryLines ==
    {<<"title:", " ", "S">>, <<"description:", " ", "w">>, <<"w">>,
     <<" ", "description:", " ", "w">>}

\* Largest number of frontmatter lines of a modelled file.
MaxFmLines == 2

\* What follows the closing --- in the modelled files.
FileBodies ==
    {<<"\n">>, <<"\n", "\n", "w", ".", "\n">>, <<"\n", "w", "\r", "\n", "--", "\n">>,
     <<"\n">> \o LongBody(<<>>)}

MarkdownFile(lines, rest) ==
    <<"---", "\n">> \o Join(lines, <<"\n">>) \o <<"\n", "---">> \o rest

\* The markdown files update_description is called on: with a frontmatter of
\* up to MaxFmLines lines, with an empty one, and without frontmatter.
SummaryFiles ==
    {MarkdownFile(lines, rest) :
        lines \in UNION {[1..n -> SummaryLines] : n \in 1..MaxFmLines},
        rest \in FileBodies}
    \cup {<<"---", "\n", "---", "\n", "w">>, <<"w", ".", "\n">>, <<"---", "\n", "w">>}

\* The files the CLI is run on; NoFile stands for a path that is no file.
NoFile == <<"ENOENT">>

CliFiles ==
    {NoFile, <<"w", ".", "\n">>, <<"---", "\n", "w">>,
     MarkdownFile(<<<<"title:", " ", "S">>>>, <<"\n">>),
     MarkdownFile(<<<<"title:", " ", "S">>>>, <<"\n", "\n", "w", ".", "\n">>),
     MarkdownFile(<<<<"description:", " ", "w">>>>, <<"\n">> \o LongBody(<<>>)),
     LongBody(<<>>)}

NoReport ==
    [returns |-> "", summary |-> <<>>, by |-> "none", calls |-> 0,
     method_used |-> "", printed |-> <<>>, content |-> <<>>]

\* A call generate_summary(body, method).
InitGenerate ==
    /\ pc = "generate_start"
    /\ VoiceIdle
    /\ HookIdle
    /\ GraphIdle
    /\ ThreadIdle
    /\ LinkIdle
    /\ TripIdle
    /\ ArdIdle
    /\ FaultIdle
    /\ UpdIdle
    /\ SaveIdle
    /\ mail \in SummaryBodies
    /\ args \in [method : Methods, update_frontmatter : {FALSE}, json : {FALSE}]
    /\ ollama \in Environments
    /\ report = NoReport

\* A call update_description(file_path, method).
InitUpdateDescription ==
    /\ pc = "describe_start"
    /\ VoiceIdle
    /\ HookIdle
    /\ GraphIdle
    /\ ThreadIdle
    /\ LinkIdle
    /\ TripIdle
    /\ ArdIdle
    /\ FaultIdle
    /\ UpdIdle
    /\ SaveIdle
    /\ mail \in SummaryFiles
    /\ args \in [method : Methods, update_frontmatter : {FALSE}, json : {FALSE}]
    /\ ollama \in FewEnvironments
    /\ report = NoReport

\* A run of email-summary.py <file> [--method m] [--update-frontmatter] [--json].
InitCli ==
    /\ pc = "cli_start"
    /\ VoiceIdle
    /\ HookIdle
    /\ GraphIdle
    /\ ThreadIdle
    /\ LinkIdle
    /\ TripIdle
    /\ ArdIdle
    /\ FaultIdle
    /\ UpdIdle
    /\ SaveIdle
    /\ mail \in CliFiles
    /\ args \in [method : Methods, update_frontmatter : BOOLEAN, json : BOOLEAN]
    /\ ollama \in Environments
    /\ report = NoReport

InitSummary == InitGenerate \/ InitUpdateDescription \/ InitCli

\* generate_summary(body, method) returns.
GenerateSummary ==
    /\ pc = "generate_start"
    /\ pc' = "generate_done"
    /\ \E r \in {generate_summary(mail, args.method, ollama)} :
          report' = [NoReport EXCEPT !.returns = "str", !.summary = r.summary,
                                     !.by = r.by, !.calls = r.calls]
    /\ UNCHANGED <<mail, args, ollama, graph_vars, thread_vars, link_vars, trip_vars, ard_vars, fault_vars, upd_vars, save_vars, hook_vars, voice_vars>>

\* update_description(file_path, method) returns.
UpdateDescription ==
    /\ pc = "describe_start"
    /\ pc' = "describe_done"
    /\ \E r \in {update_description(mail, args.method, ollama)} :
          /\ report' = [NoReport EXCEPT !.returns = IF r.returns THEN "True" ELSE "False",
                                        !.content = r.content]
          /\ mail' = r.content
    /\ UNCHANGED <<args, ollama, graph_vars, thread_vars, link_vars, trip_vars, ard_vars, fault_vars, upd_vars, save_vars, hook_vars, voice_vars>>

\* The lines main() prints on standard output (lines 606-624).
Printed(a, summary, wc, method_used) ==
    IF a.update_frontmatter
    THEN <<<<"Updated", "description">>,
           <<"Words:", ToString(wc), "Method:", method_used>>,
           <<"Summary:">> \o TakeChars(summary, 120)
               \o (IF CharLen(summary) > 120 THEN <<"...">> ELSE <<>>)>>
    ELSE IF a.json
    THEN <<<<"summary">> \o summary, <<"word_count", ToString(wc)>>,
           <<"method", method_used>>, <<"char_count", ToString(CharLen(summary))>>>>
    ELSE <<summary>>

\* main() (lines 569-626)
Cli ==
    /\ pc = "cli_start"
    /\ pc' = "cli_done"
    /\ IF mail = NoFile
       THEN /\ report' = [NoReport EXCEPT !.returns = "1"]
            /\ mail' = mail
       ELSE \E body \in {extract_body(ReadText(mail))} :
            \E r \in {generate_summary(body, args.method, ollama)} :
            \E wc \in {word_count(strip_markdown(body))} :
            \E method_used \in {IF wc <= WordCountThreshold THEN "heuristic" ELSE "ollama"} :
            \E u \in {IF args.update_frontmatter /\ r.summary # <<>>
                      THEN update_description(mail, args.method, ollama)
                      ELSE [returns |-> FALSE, content |-> mail]} :
               /\ mail' = u.content
               /\ report' =
                    IF args.update_frontmatter /\ ~u.returns
                    THEN [NoReport EXCEPT !.returns = "1", !.summary = r.summary,
                                          !.by = r.by, !.calls = r.calls,
                                          !.content = u.content]
                    ELSE [returns |-> "0", summary |-> r.summary, by |-> r.by,
                          calls |-> r.calls, method_used |-> method_used,
                          printed |-> Printed(args, r.summary, wc, method_used),
                          content |-> u.content]
    /\ UNCHANGED <<args, ollama, graph_vars, thread_vars, link_vars, trip_vars, ard_vars, fault_vars, upd_vars, save_vars, hook_vars, voice_vars>>

NextSummary == GenerateSummary \/ UpdateDescription \/ Cli

SpecSummary == InitSummary /\ [][NextSummary]_vars

\* -------------------------------------- voice-bridge.py: VoiceBridge (350-503)

\* SAMPLE_RATE, BLOCK_SIZE, and SILENCE_DURATION, MIN_SPEECH_DURATION and
\* MAX_RECORD_DURATION in tenths of a second.
SampleRate == 16000

BlockSize == 512

SilenceDuration == 15

MinSpeechDuration == 5

MaxRecordDuration == 300

\* Largest number of audio blocks delivered after the first utterance was
\* queued.
MaxExtraBlocks == 3

\* An audio block: whether the VAD finds speech in it, and whether
\* is_speaking was true when sounddevice called the callback with it.
Block(speech, muted) == [speech |-> speech, muted |-> muted]

\* len(np.concatenate(frames)), in samples
Samples(frames) == Len(frames) * BlockSize

\* The callback thread is between two calls.
CallbackIdle == [at |-> "idle", audio |-> <<>>]

\* The processing thread waits for the next utterance (lines 438-441).
ProcessWaiting == [at |-> "wait", audio |-> <<>>]

\* VoiceBridge.run() has started the processing thread and the input stream
\* (lines 508-542).
InitVoice ==
    /\ pc = "voice"
    /\ SummaryIdle
    /\ HookIdle
    /\ GraphIdle
    /\ ThreadIdle
    /\ LinkIdle
    /\ TripIdle
    /\ ArdIdle
    /\ FaultIdle
    /\ UpdIdle
    /\ SaveIdle
    /\ running = TRUE
    /\ is_speaking = FALSE
    /\ audio_buffer = <<>>
    /\ speech_frames = <<>>
    /\ silence_counter = 0
    /\ speech_detected = FALSE
    /\ callback = CallbackIdle
    /\ process = ProcessWaiting
    /\ heard = [blocks |-> 0, extra |-> 0, queued |-> 0]

\* sounddevice calls _audio_callback with the next block (lines 368-373).
\* The speaker says one block of speech and is silent until the utterance is
\* queued; after that up to MaxExtraBlocks blocks of any kind arrive.
Deliver ==
    /\ pc = "voice"
    /\ running
    /\ callback.at = "idle"
    /\ \E speech \in BOOLEAN :
          /\ heard.queued = 0 => speech = (heard.blocks = 0)
          /\ heard.queued > 0 => heard.extra < MaxExtraBlocks
          /\ callback' = [at |-> "check", audio |-> <<Block(speech, is_speaking)>>]
          /\ heard' = [heard EXCEPT !.blocks = @ + 1,
                                    !.extra = IF heard.queued > 0 THEN @ + 1 ELSE @]
    /\ UNCHANGED <<pc, running, is_speaking, audio_buffer, speech_frames, silence_counter, speech_detected, process, graph_vars, thread_vars, link_vars, trip_vars, ard_vars, fault_vars, upd_vars, save_vars, hook_vars, summary_vars>>

\* Line 378: the callback reads is_speaking and returns when it is true.
CheckSpeaking ==
    /\ pc = "voice"
    /\ callback.at = "check"
    /\ callback' = IF is_speaking THEN CallbackIdle ELSE [callback EXCEPT !.at = "vad"]
    /\ UNCHANGED <<pc, running, is_speaking, audio_buffer, speech_frames, silence_counter, speech_detected, process, heard, graph_vars, thread_vars, link_vars, trip_vars, ard_vars, fault_vars, upd_vars, save_vars, hook_vars, summary_vars>>

\* Lines 381-400 for one block: the frames, the counter, the flag and the
\* utterances queued afterwards.
AfterVad(audio, frames, counter, detected) ==
    LET kept == Append(frames, audio)
    IN  IF audio.speech
        THEN [frames |-> kept, counter |-> 0, detected |-> TRUE, queue |-> <<>>]
        ELSE IF ~detected
        THEN [frames |-> frames, counter |-> counter, detected |-> FALSE, queue |-> <<>>]
        ELSE IF (counter + 1) * BlockSize * 10 >= SilenceDuration * SampleRate
        THEN [frames |-> <<>>, counter |-> 0, detected |-> FALSE,
              queue |-> IF Samples(kept) * 10 >= MinSpeechDuration * SampleRate
                        THEN <<kept>> ELSE <<>>]
        ELSE [frames |-> kept, counter |-> counter + 1, detected |-> TRUE, queue |-> <<>>]

\* Lines 403-410: the cap on the length of a recording.
AfterCap(v) ==
    IF v.detected /\ Samples(v.frames) * 10 > MaxRecordDuration * SampleRate
    THEN [frames |-> <<>>, counter |-> 0, detected |-> FALSE,
          queue |-> Append(v.queue, v.frames)]
    ELSE v

\* Lines 380-410: the block goes through the VAD and into speech_frames, and
\* a finished utterance into audio_buffer.
HandleBlock ==
    /\ pc = "voice"
    /\ callback.at = "vad"
    /\ \E v \in {AfterCap(AfterVad(callback.audio[1], speech_frames,
                                   silence_counter, speech_detected))} :
          /\ speech_frames' = v.frames
          /\ silence_counter' = v.counter
          /\ speech_detected' = v.detected
          /\ audio_buffer' = audio_buffer \o v.queue
          /\ heard' = [heard EXCEPT !.queued = @ + Len(v.queue)]
    /\ callback' = CallbackIdle
    /\ UNCHANGED <<pc, running, is_speaking, process, graph_vars, thread_vars, link_vars, trip_vars, ard_vars, fault_vars, upd_vars, save_vars, hook_vars, summary_vars>>

\* Lines 438-443: the loop ends when running is false, and takes the next
\* utterance when there is one.
TakeUtterance ==
    /\ pc = "voice"
    /\ process.at = "wait"
    /\ IF ~running
       THEN /\ process' = [at |-> "ended", audio |-> <<>>]
            /\ UNCHANGED audio_buffer
       ELSE /\ audio_buffer # <<>>
            /\ process' = [at |-> "stt", audio |-> Head(audio_buffer)]
            /\ audio_buffer' = Tail(audio_buffer)
    /\ UNCHANGED <<pc, running, is_speaking, speech_frames, silence_counter, speech_detected, callback, heard, graph_vars, thread_vars, link_vars, trip_vars, ard_vars, fault_vars, upd_vars, save_vars, hook_vars, summary_vars>>

\* Lines 447-474: stt.transcribe gives nothing (back to waiting), an exit
\* phrase (tts.speak("Bye for now."), which returns or raises, and the loop
\* ends), or a text for the LLM.
Transcribe ==
    /\ pc = "voice"
    /\ process.at = "stt"
    /\ \E text \in {"", "goodbye", "hello"}, raised \in BOOLEAN :
          /\ text # "goodbye" => ~raised
          /\ process' = IF text = "" THEN ProcessWaiting
                        ELSE IF text = "hello" THEN [process EXCEPT !.at = "llm"]
                        ELSE IF raised THEN [at |-> "raised", audio |-> <<>>]
                        ELSE [at |-> "ended", audio |-> <<>>]
          /\ running' = IF text = "goodbye" /\ ~raised THEN FALSE ELSE running
    /\ UNCHANGED <<pc, is_speaking, audio_buffer, speech_frames, silence_counter, speech_detected, callback, heard, graph_vars, thread_vars, link_vars, trip_vars, ard_vars, fault_vars, upd_vars, save_vars, hook_vars, summary_vars>>

\* Lines 482-490: llm.query answers, and is_speaking is set.
StartSpeaking ==
    /\ pc = "voice"
    /\ process.at = "llm"
    /\ is_speaking' = TRUE
    /\ process' = [at |-> "speak", audio |-> <<>>]
    /\ UNCHANGED <<pc, running, audio_buffer, speech_frames, silence_counter, speech_detected, callback, heard, graph_vars, thread_vars, link_vars, trip_vars, ard_vars, fault_vars, upd_vars, save_vars, hook_vars, summary_vars>>

\* Lines 492-495: tts.speak(response) returns, or raises an Exception that
\* is logged.
Speak ==
    /\ pc = "voice"
    /\ process.at = "speak"
    /\ \E raised \in BOOLEAN :
          process' = [at |-> IF raised THEN "except" ELSE "finally", audio |-> <<>>]
    /\ UNCHANGED <<pc, running, is_speaking, audio_buffer, speech_frames, silence_counter, speech_detected, callback, heard, graph_vars, thread_vars, link_vars, trip_vars, ard_vars, fault_vars, upd_vars, save_vars, hook_vars, summary_vars>>

\* Lines 496-503: the finally clause, and back to the head of the loop.
FinishSpeaking ==
    /\ pc = "voice"
    /\ process.at \in {"except", "finally"}
    /\ is_speaking' = FALSE
    /\ process' = ProcessWaiting
    /\ UNCHANGED <<pc, running, audio_buffer, speech_frames, silence_counter, speech_detected, callback, heard, graph_vars, thread_vars, link_vars, trip_vars, ard_vars, fault_vars, upd_vars, save_vars, hook_vars, summary_vars>>

NextVoice ==
    \/ Deliver
    \/ CheckSpeaking
    \/ HandleBlock
    \/ TakeUtterance
    \/ Transcribe
    \/ StartSpeaking
    \/ Speak
    \/ FinishSpeaking

SpecVoice == InitVoice /\ [][NextVoice]_vars

\* ------------------------------------------------ claims on build_thread_graph

\* The emails that were assigned a thread_id.
Threaded == {i \in DOMAIN docs : docs[i].thread_id # Unset.thread_id}

\* The non-empty message_ids of the scan are pairwise distinct.
DistinctMessageIds ==
    \A i, j \in EmailIdx(emails) :
        (i # j /\ emails[i].message_id # <<>>) => emails[i].message_id # emails[j].message_id

\* C2: after build_thread_graph on emails whose non-empty message_ids are
\* pairwise distinct, every email with a thread_id has a thread_length equal
\* to the number of emails with that thread_id.
ThreadLengthIsMemberCount ==
    (pc = "built" /\ DistinctMessageIds) =>
        \A i \in Threaded :
            docs[i].thread_length =
                Cardinality({j \in Threaded : docs[j].thread_id = docs[i].thread_id})

\* A thread of two or more emails was built from distinct message_ids.
ThreadLengthWitness ==
    /\ pc = "built"
    /\ DistinctMessageIds
    /\ \E i \in Threaded : docs[i].thread_length >= 2

\* The email has no in_reply_to, or one that, surrounding whitespace apart, is
\* the message_id of no scanned email.
Unresolved(i) ==
    \/ Strip(emails[i].in_reply_to) = <<>>
    \/ \A j \in EmailIdx(emails) :
          Strip(emails[j].message_id) # Strip(emails[i].in_reply_to)

\* The thread_id of a root: its own message_id, or its file path without one.
OwnThreadId(i) ==
    IF emails[i].message_id # <<>> THEN emails[i].message_id ELSE File(i)

Occurrences(i) ==
    Cardinality(UNION {{<<t, k>> : k \in {l \in DOMAIN threads[t] : threads[t][l] = i}} :
                          t \in DOMAIN threads})

\* C5: after build_thread_graph every input email is in exactly one returned
\* thread list, exactly once, with thread_id, thread_position and
\* thread_length set, reply cycles included.
EveryEmailInOneThread ==
    pc = "built" =>
        \A i \in EmailIdx(emails) :
            /\ Occurrences(i) = 1
            /\ docs[i].thread_id # Unset.thread_id
            /\ docs[i].thread_position # Unset.thread_position
            /\ docs[i].thread_length # Unset.thread_length

\* No traversal from a root appended the same email twice.
NoRevisit ==
    \A t \in DOMAIN thread_lists :
        \A k, l \in DOMAIN thread_lists[t] :
            thread_lists[t][k].doc = thread_lists[t][l].doc => k = l

\* C6: the traversal terminates on every list of emails and never visits the
\* same email twice within one traversal from a root.
TraversalTerminatesWithoutRevisit ==
    pc # "RecursionError" /\ NoRevisit

\* C3: in the threads built from emails with pairwise distinct message_ids, no
\* two distinct emails with the same thread_id have the same
\* thread_position, and thread_position grows strictly from an email to each
\* of its replies in the thread.
PositionUniqueInThread ==
    (pc = "built" /\ DistinctMessageIds) =>
        /\ \A i, j \in Threaded :
              (i # j /\ docs[i].thread_id = docs[j].thread_id)
                  => docs[i].thread_position # docs[j].thread_position
        /\ \A t \in DOMAIN thread_lists :
              \A k, l \in DOMAIN thread_lists[t] :
                  (k < l /\ emails[thread_lists[t][l].doc].in_reply_to
                              = emails[thread_lists[t][k].doc].message_id)
                      => thread_lists[t][k].pos < thread_lists[t][l].pos

\* IsReplyTo(i, j): email i is a direct reply to email j.
IsReplyTo(i, j) ==
    emails[i].in_reply_to # <<>> /\ emails[i].in_reply_to = emails[j].message_id

\* IsDescendant(i, j): email i is reached from email j by one or more replies.
IsDescendant(i, j) ==
    \E path \in UNION {[1..n -> EmailIdx(emails)] : n \in 2..Len(emails)} :
        /\ path[1] = j
        /\ path[Len(path)] = i
        /\ \A k \in 1..(Len(path) - 1) : IsReplyTo(path[k + 1], path[k])

\* PreOrder(thread): the list starts at a root, holds every reply to its
\* members, each reply after its parent with only the parent's descendants in
\* between, and two replies to one email in the order of their date_sent.
PreOrder(thread) ==
    /\ \A j \in EmailIdx(emails) : ~IsReplyTo(thread[1], j)
    /\ \A k \in DOMAIN thread : \A i \in EmailIdx(emails) :
          IsReplyTo(i, thread[k]) => \E l \in DOMAIN thread : thread[l] = i
    /\ \A l \in 2..Len(thread) :
          \E k \in 1..(l - 1) :
              /\ IsReplyTo(thread[l], thread[k])
              /\ \A m \in (k + 1)..(l - 1) : IsDescendant(thread[m], thread[k])
    /\ \A k, l \in DOMAIN thread :
          (/\ emails[thread[k]].in_reply_to = emails[thread[l]].in_reply_to
           /\ StrLess(emails[thread[k]].date_sent, emails[thread[l]].date_sent))
              => k < l

\* C8: every thread list returned by build_thread_graph is the depth-first
\* pre-order of its reply tree: the root first, the direct replies of every
\* node in ascending date_sent (a reply without date_sent before the dated
\* ones), each reply followed at once by all of its descendants.
ThreadListIsPreOrder ==
    pc = "built" => \A t \in DOMAIN threads : PreOrder(threads[t])

\* A thread of four: the root, then a reply without date_sent that was scanned
\* after its dated sibling, then that reply's own reply, then the sibling.
PreOrderWitness ==
    /\ pc = "built"
    /\ \E t \in DOMAIN threads :
          LET thread == threads[t]
          IN  /\ Len(thread) = 4
              /\ IsReplyTo(thread[2], thread[1])
              /\ IsReplyTo(thread[3], thread[2])
              /\ IsReplyTo(thread[4], thread[1])
              /\ thread[4] < thread[2]
              /\ StrLess(emails[thread[2]].date_sent, emails[thread[4]].date_sent)

\* ------------------------------------------------ claims on reconstruct_thread

RECURSIVE Ancestors(_, _, _)
\* The messages reached from m by following in_reply_to one to n times.
Ancestors(tm, m, n) ==
    IF n = 0 \/ tm[m] \notin DOMAIN tm THEN {}
    ELSE {tm[m]} \cup Ancestors(tm, tm[m], n - 1)

\* m lies on a cycle of in_reply_to references (a self-reference included).
OnCycle(tm, m) == m \in Ancestors(tm, m, Cardinality(DOMAIN tm))

\* D's in_reply_to is the message_id of another message P of the map.
RepliesTo(tm, D, P) == D \in DOMAIN tm /\ P \in DOMAIN tm /\ D # P /\ tm[D] = P

ChildAfterParent(D, P) ==
    /\ results[D].thread_position > results[P].thread_position
    /\ results[D].thread_id = results[P].thread_id

\* C1 as stated: for every thread_map, cyclic ones included, a message that
\* replies to another message of the map gets a greater thread_position than
\* that message and the same thread_id.
ReplyFollowsParent ==
    pc = "rt_done" =>
        \A D, P \in DOMAIN thread_map :
            RepliesTo(thread_map, D, P) => ChildAfterParent(D, P)

\* C1 amended: the same for every message D that does not itself lie on a
\* cycle of in_reply_to references (its parent may).
ReplyOffCycleFollowsParent ==
    pc = "rt_done" =>
        \A D, P \in DOMAIN thread_map :
            (RepliesTo(thread_map, D, P) /\ ~OnCycle(thread_map, D))
                => ChildAfterParent(D, P)

\* A message off every cycle replied to a message on a cycle and was placed
\* right after it in the same thread.
ReplyOffCycleWitness ==
    /\ pc = "rt_done"
    /\ \E D, P \in DOMAIN thread_map :
          /\ RepliesTo(thread_map, D, P)
          /\ ~OnCycle(thread_map, D)
          /\ OnCycle(thread_map, P)
          /\ results[D].thread_position = results[P].thread_position + 1
          /\ results[D].thread_id = results[P].thread_id

NoDuplicates(seq) == \A k, l \in DOMAIN seq : seq[k] = seq[l] => k = l

\* The backward walk and the descendant count of the running call have
\* visited no message twice.
VisitsOnce ==
    pc \in {"rt_walk", "rt_count"} =>
        NoDuplicates(call.chain) /\ NoDuplicates(call.counted)

\* C7: reconstruct_thread terminates for every thread_map and message_id,
\* self-referential and cyclic references included; the backward walk stops
\* at the first visited message and the descendant count visits each message
\* at most once.
ReconstructThreadTerminates == []VisitsOnce /\ <>(pc = "rt_done")

\* Every call returned on a map holding a cycle of two messages.
CycleTerminatedWitness ==
    /\ pc = "rt_done"
    /\ \E D, P \in DOMAIN thread_map :
          /\ RepliesTo(thread_map, D, P)
          /\ RepliesTo(thread_map, P, D)
          /\ results[D].thread_length >= 2

\* c is a linear reply chain: distinct messages, the first without
\* in_reply_to, each next one replying to the one before, and no other
\* message of the map replying into the chain.
IsLinearChain(tm, c) ==
    /\ NoDuplicates(c)
    /\ tm[c[1]] = <<>>
    /\ \A k \in 2..Len(c) : tm[c[k]] = c[k - 1]
    /\ \A m \in DOMAIN tm :
          (\A k \in DOMAIN c : c[k] # m) => (\A k \in DOMAIN c : tm[m] # c[k])

LinearChains(tm) ==
    {c \in UNION {[1..n -> DOMAIN tm] : n \in 1..Cardinality(DOMAIN tm)} :
        IsLinearChain(tm, c)}

\* C9: for a linear reply chain of n messages, the k-th gets thread_id = the
\* first message's id, thread_position = k and thread_length = n.
LinearChainPositions ==
    pc = "rt_done" =>
        \A c \in LinearChains(thread_map) :
            \A k \in DOMAIN c :
                results[c[k]] = [thread_id |-> c[1], thread_position |-> k,
                                 thread_length |-> Len(c)]

\* A chain of three messages was reconstructed.
LinearChainWitness ==
    /\ pc = "rt_done"
    /\ \E c \in LinearChains(thread_map) :
          Len(c) = 3 /\ results[c[3]].thread_position = 3

\* ------------------------------------------- claims on cross-document-linking

\* C10: once cross-document-linking has run on a directory, a further run on
\* the unchanged directory leaves every file as the first run wrote it: no
\* step of a second run changes the content of a file.
SecondRunChangesNoFile == [][run >= 2 => files' = files]_vars

\* The key-to-value mapping of a frontmatter dict, whatever the order of keys.
Mapping(fm) == {[key |-> fm[k].key, kind |-> fm[k].kind, items |-> fm[k].items] : k \in DOMAIN fm}

\* C12: parse_frontmatter, serialize_frontmatter and parse_frontmatter again
\* give the key-to-value mapping the first parse_frontmatter gave.
ReparseGivesSameMapping ==
    pc = "fm_reparsed" => Mapping(round_trip.again) = Mapping(round_trip.fm_dict)

\* ---------------------------------------------- claims on add-related-docs

\* How often the token occurs in the text.
Count(text, token) == Cardinality({k \in DOMAIN text : text[k] = token})

\* C11: a second batch run of add-related-docs on the directory the first run
\* left changes no file, and no file ever holds more than one related_docs
\* field or more than one Related Documents section.
SecondBatchRunIsIdentity ==
    /\ [][(pc = "ard_scanned" /\ run >= 2) => files' = files]_vars
    /\ [](pc \in {"ard_start", "ard_scanned", "ard_done"} =>
            \A f \in DOMAIN files :
                /\ Count(files[f], "related_docs") <= 1
                /\ Count(files[f], "## Related Documents") <= 1)

\* A second run has ended on a directory where the first run wrote a
\* navigation section into document a.
SecondBatchRunWitness ==
    /\ pc = "ard_done"
    /\ run = 2
    /\ ~dry_run
    /\ <<"a">> \in updated
    /\ Count(files[<<"a">>], "## Related Documents") = 1
    /\ Count(files[<<"a">>], "related_docs") = 1

\* ------------------------------------ claims on both writers of related_docs

\* C13: when no relationship was computed for a document, update_document and
\* add_related_docs leave every file as it is and return False: the document
\* is not counted as updated.
NoRelationshipNoWrite ==
    [][/\ (/\ pc = "linked"
           /\ documents # <<>>
           /\ \A t \in DOMAIN Head(documents).related_docs :
                 Head(documents).related_docs[t] = <<>>)
          => (files' = files /\ updated' = updated)
       /\ (/\ pc = "ard_scanned"
           /\ pending # <<>>
           /\ LET md_file == Head(pending)
                  related == RelatedDocs(md_file,
                                 ard_parse_frontmatter(files[md_file]).frontmatter,
                                 all_docs, attachment_dirs)
              IN  /\ related.attachments = <<>>
                  /\ related.thread_siblings = [previous |-> <<>>, next |-> <<>>]
                  /\ related.entity_matches = <<>>)
          => (files' = files /\ updated' = updated)]_vars

\* add-related-docs has ended a run that wrote document b and passed over
\* document c, which has a frontmatter and no relationship.
NoRelationshipWitness ==
    /\ pc = "ard_done"
    /\ ~dry_run
    /\ <<"b">> \in updated
    /\ <<"c">> \notin updated
    /\ \E k \in DOMAIN all_docs : all_docs[k].path = <<"c">>
    /\ Count(files[<<"c">>], "related_docs") = 0

\* The files a run of add-related-docs.py without --dry-run writes in the
\* directory: those add_related_docs returns True for.
ArdWrites ==
    LET scanned == scan_directory(files, scan_order)
    IN  {scanned[k].path : k \in {k \in DOMAIN scanned :
            add_related_docs(scanned[k].path, ard_parse_frontmatter(files[scanned[k].path]),
                             scanned, attachment_dirs, FALSE).writes}}

\* The files a run of cross-document-linking.py without --dry-run writes in
\* the directory: those with a relationship.
LinkWrites ==
    LET md_files == MdFiles(files)
        parsed   == [k \in DOMAIN md_files |->
                        Document(md_files[k], parse_frontmatter(files[md_files[k]]).fm_dict,
                                 parse_frontmatter(files[md_files[k]]).body)]
        linked   == BuildAll(parsed, folders)
    IN  {linked[k].path : k \in {k \in DOMAIN linked :
            \E t \in DOMAIN linked[k].related_docs : linked[k].related_docs[t] # <<>>}}

\* C14: with --dry-run no step of either writer changes a file, and the
\* documents counted as "would update" at the end of the run are the files a
\* run without --dry-run writes in the same directory.
DryRunWritesNothing ==
    /\ [][dry_run => files' = files]_vars
    /\ []((dry_run /\ pc = "ard_done") => updated = ArdWrites)
    /\ []((dry_run /\ pc = "link_done" /\ run >= 1) => updated = LinkWrites)

\* A dry run of add-related-docs has ended: a and b are counted as "would
\* update" and neither has a related_docs field.
DryRunWitness ==
    /\ pc = "ard_done"
    /\ dry_run
    /\ updated = {<<"a">>, <<"b">>}
    /\ Count(files[<<"a">>], "related_docs") = 0
    /\ Count(files[<<"b">>], "related_docs") = 0

\* ------------------------------------------------ claims on write errors

\* C15: a write error on one document does not end the batch run of
\* cross-document-linking.py or of email-thread-reconstruction.py: the loop
\* goes on to the documents after it.
WriteErrorDoesNotEndBatch == pc \notin {"link_aborted", "upd_aborted"}

\* ----------------------------------------------- claims on entity links

\* The flattened entity set of a document: the strings of the lists under
\* the entities mapping of its frontmatter.
DocumentEntities(content) == EntitySet(ard_parse_frontmatter(content).frontmatter)

\* The number of entity strings the two files have in common.
Shared(f, g) == Cardinality(DocumentEntities(files[f]) \cap DocumentEntities(files[g]))

\* C16: of two distinct scanned documents one is linked from the other as
\* entity-related exactly when they have at least the configured minimum of
\* entity strings in common, in both directions, and the shared list of a
\* match of find_entity_matches is that intersection.
EntityLinkIffEnoughShared ==
    /\ (pc = "linked" /\ run = 1 /\ Len(documents) = Len(MdFiles(files))) =>
          \A i, j \in DOMAIN documents :
             i # j =>
                ((\E k \in DOMAIN documents[i].related_docs["shared_entities"] :
                     documents[i].related_docs["shared_entities"][k] = RelPath(documents[j]))
                 <=> Shared(documents[i].path, documents[j].path) >= MinSharedEntities)
    /\ (pc = "ard_scanned" /\ run = 1 /\ Len(pending) = Len(all_docs)) =>
          \A i, j \in DOMAIN all_docs :
             i # j =>
                LET matches == find_entity_matches(all_docs[i].path, all_docs[i].meta,
                                                   all_docs, MinOverlap)
                    hits    == {k \in DOMAIN matches :
                                   matches[k].path = all_docs[j].path \o <<".md">>}
                IN  /\ hits # {} <=> Shared(all_docs[i].path, all_docs[j].path) >= MinOverlap
                    /\ \A k \in hits :
                          /\ {matches[k].entities[e] : e \in DOMAIN matches[k].entities}
                                = DocumentEntities(files[all_docs[i].path])
                                     \cap DocumentEntities(files[all_docs[j].path])
                          /\ Len(matches[k].entities)
                                = Shared(all_docs[i].path, all_docs[j].path)

\* C17: the list find_entity_matches returns for a scanned document is
\* ordered by descending number of shared entities and, among matches with
\* the same number, by ascending document path, whatever the scan order.
EntityMatchesOrdered ==
    (pc = "ard_scanned" /\ Len(pending) = Len(all_docs)) =>
        \A i \in DOMAIN all_docs :
            LET matches == find_entity_matches(all_docs[i].path, all_docs[i].meta,
                                               all_docs, MinOverlap)
            IN  \A k, l \in DOMAIN matches :
                    k < l =>
                        \/ Len(matches[k].entities) > Len(matches[l].entities)
                        \/ /\ Len(matches[k].entities) = Len(matches[l].entities)
                           /\ StrLess(matches[k].path, matches[l].path)

\* ------------------------------------------- claims on attachment links

\* The name of a raw headers file: its stem ends in -raw-headers.
RawHeadersName(name) == EndsWith(SubSeq(name, 1, Len(name) - 1), <<"-raw-headers">>)

\* The links to the files of the directory <stem>_attachments/ of a document,
\* the raw headers files left out.
AttachmentDirectoryLinks(path) ==
    {path \o <<"_attachments", "/">> \o name :
        name \in {n \in attachment_dirs[path] : ~RawHeadersName(n)}}

\* C18: the attachment relationship of a document X.md lists every file of
\* its sibling directory X_attachments/ whose name does not end in
\* -raw-headers, and nothing else, in add-related-docs.py and in
\* cross-document-linking.py.
AttachmentsAreDirectoryFiles ==
    /\ (pc = "ard_scanned" /\ run = 1 /\ Len(pending) = Len(all_docs)) =>
          \A i \in DOMAIN all_docs :
             LET attachments == find_attachments(all_docs[i].path, all_docs[i].meta,
                                                 attachment_dirs)
             IN  {attachments[k] : k \in DOMAIN attachments}
                    = AttachmentDirectoryLinks(all_docs[i].path)
    /\ (pc = "linked" /\ run = 1 /\ Len(documents) = Len(MdFiles(files))) =>
          \A i \in DOMAIN documents :
             {documents[i].related_docs["attachments"][k] :
                 k \in DOMAIN documents[i].related_docs["attachments"]}
                = AttachmentDirectoryLinks(documents[i].path)

\* ------------------------------------------- claims on update_frontmatter

\* The frontmatter lines of a document: the text between the opening rule
\* and the first closing rule, split at the line ends.
FrontmatterOf(content) ==
    Split(Slice(content, 4, 4 + Find(From(content, 4), <<"\n", "-", "-", "-", "\n">>, 0)),
          <<"\n">>)

\* The body of a document: the text after the first closing rule.
BodyOf(content) ==
    From(content, 4 + Find(From(content, 4), <<"\n", "-", "-", "-", "\n">>, 0) + 5)

HasFrontmatter(content) ==
    /\ StartsWith(content, <<"-", "-", "-", "\n">>)
    /\ Find(From(content, 4), <<"\n", "-", "-", "-", "\n">>, 0) # -1

\* The top-level lines of a thread field in a frontmatter.
FieldLines(lines, key) == {k \in DOMAIN lines : StartsWith(lines[k], <<key, ":">>)}

\* The lines of a frontmatter that are no top-level line of a thread field.
OtherLines(lines) ==
    SelectSeq(lines, LAMBDA line : \A k \in DOMAIN ThreadKeys :
                                      ~StartsWith(line, <<ThreadKeys[k], ":">>))

\* Each thread field has at most one top-level line in the document.
AtMostOnce(content) ==
    \A k \in DOMAIN ThreadKeys :
        Cardinality(FieldLines(FrontmatterOf(content), ThreadKeys[k])) <= 1

\* The line is the top-level line of a thread field that has no line in lines.
Inserted(line, lines) ==
    \E k \in DOMAIN ThreadKeys :
        StartsWith(line, <<ThreadKeys[k], ":">>) /\ FieldLines(lines, ThreadKeys[k]) = {}

\* The document new is the document old with its thread fields set: same
\* body, same other lines in the same order, one line per field with the
\* new value, and the lines that are not inserted are the old lines with
\* the lines of the fields overwritten.
FieldsSet(old, new, fields) ==
    /\ HasFrontmatter(new)
    /\ BodyOf(new) = BodyOf(old)
    /\ OtherLines(FrontmatterOf(new)) = OtherLines(FrontmatterOf(old))
    /\ \A k \in DOMAIN ThreadKeys :
          LET key == ThreadKeys[k]
              now == FieldLines(FrontmatterOf(new), key)
          IN  /\ Cardinality(now) = 1
              /\ \A i \in now : FrontmatterOf(new)[i] = FieldLine(key, fields)
    /\ SelectSeq(FrontmatterOf(new), LAMBDA line : ~Inserted(line, FrontmatterOf(old)))
          = [i \in DOMAIN FrontmatterOf(old) |->
                IF \E k \in DOMAIN ThreadKeys : i \in FieldLines(FrontmatterOf(old), ThreadKeys[k])
                THEN FieldLine(ThreadKeys[CHOOSE k \in DOMAIN ThreadKeys :
                                   i \in FieldLines(FrontmatterOf(old), ThreadKeys[k])], fields)
                ELSE FrontmatterOf(old)[i]]

\* C19: update_frontmatter on a document with frontmatter in which each of
\* thread_id, thread_position and thread_length has at most one top-level
\* line leaves the body and every other frontmatter line as they are, in
\* their order, and leaves each field on exactly one top-level line with the
\* new value, overwritten in place where it existed; applied again with the
\* same values, in the same run of calls or in a second run, it changes
\* nothing.
UpdateFrontmatterSetsFields ==
    /\ [][(pc = "upd_loop" /\ update_todo # <<>> /\ pc' = "upd_loop"
            /\ HasFrontmatter(files[Head(update_todo)])
            /\ AtMostOnce(files[Head(update_todo)]))
           => /\ Head(update_todo) \in updated'
              /\ FieldsSet(files[Head(update_todo)], files'[Head(update_todo)],
                           new_fields[Head(update_todo)])
              /\ update_frontmatter(files'[Head(update_todo)],
                                    new_fields[Head(update_todo)]).content
                    = files'[Head(update_todo)]
              /\ \A f \in DOMAIN files : f # Head(update_todo) => files'[f] = files[f]]_vars
    /\ [][(pc = "upd_loop" /\ run >= 2) => files' = files]_vars

\* -------------------------------------------- claims on _save_attachment

\* C20: a call of _save_attachment with a registry: when the hash of the
\* data is registered and the registered file exists, it writes no data,
\* makes a symlink to the registered file at the new path, returns
\* deduplicated_from = the registered path and leaves the registry as it
\* is; otherwise (hash not registered, or registered file gone) it writes
\* the data at the new path and the registry maps the hash to the new path,
\* every other hash as before.
SaveAttachmentContract ==
    [][saves' = saves + 1 =>
         LET filepath     == last_save'.filepath
             content_hash == compute_content_hash(last_save'.data)
         IN  IF content_hash \in DOMAIN registry /\ Exists(disk, registry[content_hash])
             THEN /\ ~last_save'.raised
                  /\ disk' = [disk EXCEPT ![filepath] = Symlink(registry[content_hash])]
                  /\ last_save'.dedup_info = {<<"deduplicated_from", registry[content_hash]>>}
                  /\ registry' = registry
             ELSE /\ ~last_save'.raised
                  /\ ReadData(disk', filepath) = last_save'.data
                  /\ last_save'.dedup_info = {}
                  /\ DOMAIN registry' = DOMAIN registry \cup {content_hash}
                  /\ \A h \in DOMAIN registry' :
                        registry'[h] = IF h = content_hash THEN filepath ELSE registry[h]]_vars

\* C25: after any sequence of _save_attachment calls on one registry, for
\* every hash in the registry the registered path, if it exists, holds
\* content with that hash, and a symlink made for a deduplicated attachment
\* gives the data of that attachment when it is read.
RegistryHashesMatchContent ==
    /\ [](pc = "save" =>
            \A h \in DOMAIN registry :
                Exists(disk, registry[h]) =>
                    compute_content_hash(ReadData(disk, registry[h])) = h)
    /\ [][(saves' = saves + 1 /\ last_save'.dedup_info # {})
             => ReadData(disk', last_save'.filepath) = last_save'.data]_vars

\* C26: a second call of _save_attachment with the same path and the same
\* data, on a registry that maps the hash of the data to that very path
\* where the file still is, does not raise and leaves a regular file with
\* the data at the path.
ReconversionIsSafe ==
    [][(/\ saves' = saves + 1
        /\ compute_content_hash(last_save'.data) \in DOMAIN registry
        /\ registry[compute_content_hash(last_save'.data)] = last_save'.filepath
        /\ disk[last_save'.filepath] = RegularFile(last_save'.data))
       => /\ ~last_save'.raised
          /\ disk'[last_save'.filepath] = RegularFile(last_save'.data)]_vars

\* ------------------------------------------------- claims on self links

\* C27: after the three relationship builders of cross-document-linking.py
\* have run, no related_docs list of a document, of any type, holds a link
\* to the document itself, a document that replies to its own message_id
\* included.
NoSelfLink ==
    pc = "linked" =>
        \A i \in DOMAIN documents :
            \A t \in DOMAIN documents[i].related_docs :
                \A k \in DOMAIN documents[i].related_docs[t] :
                    documents[i].related_docs[t][k] # RelPath(documents[i])

\* ------------------------------------------ claims on thread navigation

\* The previous and next links find_thread_siblings gives scanned document i.
SiblingsOf(i) == find_thread_siblings(all_docs[i].path, all_docs[i].meta, all_docs)

\* The scanned documents i and j are two documents of one thread.
SameThread(i, j) ==
    /\ i # j
    /\ Truthy(Get(all_docs[i].meta, <<"thread_id">>))
    /\ Get(all_docs[i].meta, <<"thread_id">>) = Get(all_docs[j].meta, <<"thread_id">>)

\* C28: the previous and next links of find_thread_siblings agree in every
\* thread, a thread whose root has thread_position 0 included: for two
\* documents A and B of one thread A's next is B exactly when B's previous
\* is A, and in a thread of two or more documents every document has a
\* previous or a next.
ThreadNavigationConsistent ==
    (pc = "ard_scanned" /\ Len(pending) = Len(all_docs)) =>
        \A i, j \in DOMAIN all_docs :
            SameThread(i, j) =>
                /\ SiblingsOf(i).next = all_docs[j].path \o <<".md">>
                      <=> SiblingsOf(j).previous = all_docs[i].path \o <<".md">>
                /\ SiblingsOf(i).previous # <<>> \/ SiblingsOf(i).next # <<>>

\* --------------------------------------- claims on the two thread builders

\* build_thread_map (email-to-markdown.py 279-312): Message-ID -> In-Reply-To
\* of every message with a non-empty Message-ID, the last one winning.
build_thread_map(es) ==
    LET ids == {es[i].message_id : i \in EmailIdx(es)} \ {<<>>}
    IN  [m \in ids |->
            es[CHOOSE i \in EmailIdx(es) :
                  es[i].message_id = m
                  /\ \A j \in EmailIdx(es) : es[j].message_id = m => j <= i].in_reply_to]

RECURSIVE WalkToRoot(_, _)
\* The while loop of lines 332-346 run until it breaks.
WalkToRoot(tm, c) ==
    IF WalkBreaks(tm, c) THEN c ELSE WalkToRoot(tm, WalkBack(tm, c))

RECURSIVE CountDescendants(_, _)
\* count_descendants(thread_id, set()) of line 367 run until it returns.
CountDescendants(tm, c) ==
    IF Top(c).update_todo # <<>> THEN CountDescendants(tm, CountItem(tm, c))
    ELSE IF Len(c.stack) > 1 THEN CountDescendants(tm, CountReturn(c))
    ELSE Top(c).count

\* reconstruct_thread(message_id, thread_map), lines 315-369, as one call.
reconstruct_thread(message_id, tm) ==
    IF ~Known(tm, message_id) THEN EarlyReturn
    ELSE LET c == WalkToRoot(tm, StartWalk(message_id))
         IN  Returned(c, CountDescendants(tm, EnterCount(tm, c, ThreadIdOf(c.chain))))

\* An In-Reply-To header that names message a with a trailing blank, as the
\* header parser hands it on.
PaddedId == <<"a", " ">>

\* The message an In-Reply-To value refers to, under the more generous of
\* the two builders' readings (surrounding blanks ignored); 0 when none.
ReferredTo(es, i) ==
    IF \E j \in EmailIdx(es) : es[j].message_id = Strip(es[i].in_reply_to)
    THEN CHOOSE j \in EmailIdx(es) : es[j].message_id = Strip(es[i].in_reply_to)
    ELSE 0

RECURSIVE ReachesRoot(_, _, _)
\* Following the references from i ends within n steps.
ReachesRoot(es, i, n) ==
    \/ ReferredTo(es, i) = 0
    \/ n > 0 /\ ReachesRoot(es, ReferredTo(es, i), n - 1)

\* The message sets of SpecAgree: MaxMessages messages with pairwise distinct
\* non-empty message_ids, each replying to none, to a scanned message (with
\* or without a trailing blank in the header), or to a message not scanned;
\* the references have no cycle.
AgreeScans ==
    LET Replies == [1..MaxMessages -> Keys(MaxMessages) \cup {<<>>, UnknownId, PaddedId}]
    IN  {es \in {[i \in 1..MaxMessages |-> [message_id |-> <<KeyNames[i]>>,
                                            in_reply_to |-> irt[i],
                                            date_sent |-> <<>>]] : irt \in Replies} :
            \A i \in 1..MaxMessages : ReachesRoot(es, i, MaxMessages)}

InitAgree ==
    /\ pc = "scanned"
    /\ VoiceIdle
    /\ SummaryIdle
    /\ HookIdle
    /\ SaveIdle
    /\ UpdIdle
    /\ FaultIdle
    /\ ArdIdle
    /\ TripIdle
    /\ ThreadIdle
    /\ LinkIdle
    /\ emails \in AgreeScans
    /\ by_message_id = NoThreads
    /\ children = NoThreads
    /\ roots = <<>>
    /\ docs = [i \in EmailIdx(emails) |-> Unset]
    /\ threads = NoThreads
    /\ thread_lists = <<>>

SpecAgree == InitAgree /\ [][NextGraph]_vars

\* C24: for messages with pairwise distinct non-empty message_ids and
\* acyclic reply references, build_thread_graph and reconstruct_thread give
\* every message the same thread_id and the same thread_length, and
\* reconstruct_thread's thread_position is build_thread_graph's plus 1.
BuildersAgree ==
    pc = "built" =>
        \A i \in EmailIdx(emails) :
            LET r == reconstruct_thread(emails[i].message_id, build_thread_map(emails))
            IN  /\ docs[i].thread_id = r.thread_id
                /\ docs[i].thread_length = r.thread_length
                /\ r.thread_position = docs[i].thread_position + 1

\* --------------------------------------------- claims on git_safety_guard

RECURSIVE SplitCommands(_, _)
\* The simple commands of a command line, cur being the one in progress.
SplitCommands(cmd, cur) ==
    IF cmd = <<>> THEN {cur}
    ELSE IF Head(cmd) \in Separators THEN {cur} \cup SplitCommands(Tail(cmd), <<>>)
    ELSE SplitCommands(Tail(cmd), Append(cur, Head(cmd)))

\* The simple command is a destructive operation that the allowlist does not
\* exempt.
Destructive(simple) ==
    /\ Found(normalize_absolute_paths(simple)) # {}
    /\ ~IsSafe(normalize_absolute_paths(simple))

\* C21: the hook always exits 0; it allows by printing nothing; and it
\* denies every Bash command line one of whose simple commands is a
\* destructive operation not exempted by the allowlist, whatever else is
\* chained to it with && or ; in the same command line.
HookDeniesDestructive ==
    pc = "hook_done" =>
        /\ exit_code = 0
        /\ stdout = <<>> \/ stdout[1].permissionDecision = "deny"
        /\ (/\ stdin.json = "object"
            /\ stdin.tool_name = "Bash"
            /\ \E simple \in SplitCommands(stdin.command, <<>>) : Destructive(simple))
           => stdout # <<>>

\* ------------------------------------------------ claims on email-summary

\* The language model gives no summary: the ollama binary is not installed,
\* not running, has no model, fails, times out or answers with nothing.
NoLlmSummary ==
    \/ ollama.list # "ok"
    \/ ollama.listing # "model"
    \/ ollama.run # "ok"
    \/ parse_summary_response(ollama.response) = <<>>
    \/ args.method = "auto" /\ ollama.check # "ok"

\* C22: generate_summary in the methods auto and ollama returns exactly
\* summarise_heuristic(body) whenever the language model gives no summary;
\* for a body with a non-empty heuristic summary the result is never empty;
\* for an empty body the result is empty and the ollama binary is not called.
GenerateSummaryFallsBack ==
    pc = "generate_done" =>
        /\ (args.method \in {"auto", "ollama"} /\ NoLlmSummary)
              => report.summary = summarise_heuristic(mail)
        /\ summarise_heuristic(mail) # <<>> => report.summary # <<>>
        /\ mail = <<>> => report.summary = <<>> /\ report.calls = 0

\* A long body whose `ollama run` timed out got its heuristic summary.
GenerateSummaryFallsBackWitness ==
    /\ pc = "generate_done"
    /\ args.method = "ollama"
    /\ ollama.list = "ok"
    /\ ollama.listing = "model"
    /\ ollama.run = "TimeoutExpired"
    /\ mail = LongBody(<<>>)
    /\ report.calls = 2
    /\ report.summary = LongBody(<<>>)

\* The frontmatter lines of the bytes of a file, and what follows its
\* closing delimiter.
FmLinesOf(data) == Split(extract_frontmatter(data).fm_content, <<"\n">>)

IsDescriptionLine(l) == l # <<>> /\ Head(l) = "description:"

IsTitleLine(l) == l # <<>> /\ Head(l) = "title:"

DescriptionAt(lines) == {i \in DOMAIN lines : IsDescriptionLine(lines[i])}

NotDescription(l) == ~IsDescriptionLine(l)

\* The index of the first title: line, 0 when there is none.
FirstTitle(lines) ==
    IF \E i \in DOMAIN lines : IsTitleLine(lines[i])
    THEN CHOOSE i \in DOMAIN lines :
            IsTitleLine(lines[i]) /\ \A j \in 1..(i - 1) : ~IsTitleLine(lines[j])
    ELSE 0

\* C23: update_description on a file without frontmatter returns False and
\* leaves the file unchanged; on a file with frontmatter and a non-empty
\* generated summary it returns True, every top-level description: line is
\* replaced in place by the new description, or, when there was none, one
\* is inserted directly after the title: line, else as the first line, and
\* all other frontmatter lines and the body are unchanged.
UpdateDescriptionContract ==
    [][(pc = "describe_start" /\ pc' = "describe_done") =>
        LET old == FmLinesOf(mail)
            new == FmLinesOf(mail')
            generated == generate_summary(extract_body(ReadText(mail)),
                                          args.method, ollama).summary
            line == <<"description:", " ">> \o yaml_escape(generated)
        IN  /\ extract_frontmatter(mail).opener = <<>>
                => report'.returns = "False" /\ mail' = mail
            /\ (extract_frontmatter(mail).opener # <<>> /\ generated # <<>>)
                => /\ report'.returns = "True"
                   /\ \A i \in DescriptionAt(new) : new[i] = line
                   /\ SelectSeq(new, NotDescription) = SelectSeq(old, NotDescription)
                   /\ IF DescriptionAt(old) # {}
                      THEN DescriptionAt(new) = DescriptionAt(old)
                      ELSE DescriptionAt(new) = {FirstTitle(old) + 1}
                   /\ extract_frontmatter(mail').body = extract_frontmatter(mail).body]_vars

\* C29: the method the CLI reports, in the method field of --json and in the
\* Method: line of --update-frontmatter, is the summariser that produced the
\* summary it prints, for every --method, word count and state of Ollama.
ReportedMethodIsUsed ==
    (/\ pc = "cli_done"
     /\ report.returns = "0"
     /\ args.update_frontmatter \/ args.json
     /\ report.summary # <<>>)
        => report.method_used = report.by

\* ------------------------------------------------ claims on the voice bridge

\* The audio blocks of an utterance that were delivered while is_speaking
\* was true.
Muted(frames) == {k \in DOMAIN frames : frames[k].muted}

\* C30: under every interleaving of the audio callback and the processing
\* thread, no audio block delivered while is_speaking was true is in
\* speech_frames, in an utterance of audio_buffer or in the utterance taken
\* for STT, and is_speaking is false whenever the processing loop waits for
\* the next utterance, also after tts.speak raised.
MutedBlocksAreDropped ==
    pc = "voice" =>
        /\ Muted(speech_frames) = {}
        /\ \A u \in DOMAIN audio_buffer : Muted(audio_buffer[u]) = {}
        /\ Muted(process.audio) = {}
        /\ process.at = "wait" => ~is_speaking

====
